---- MODULE Spec2Model ----
(***************************************************************************)
(* UAV-Insight-Toolkit: the two log decoders (ArduPilot .bin tick log,     *)
(* PX4 .ulg structured log), the decode entry point of the parser base     *)
(* class, and the part of app.py that loads a file, aligns the decoded     *)
(* table (forward fill) and cuts it into flight-mode segments.             *)
(***************************************************************************)
EXTENDS Integers, Sequences, FiniteSets, TLC

(***************************************************************************)
(* Bounds of the model.                                                    *)
(***************************************************************************)
\* longest tick-log message stream that is enumerated
MaxMsgs == 3
\* largest number of secondary topics present in an enumerated ULog file
MaxTopics == 2

(***************************************************************************)
(* Cell values.  A cell is a number n/d, a number of radians expressed in  *)
(* degrees (kind "deg": n/d * 180/pi), the square root of n/d (kind        *)
(* "sqrt", a standard deviation), a string, or NaN (pandas' null).         *)
(***************************************************************************)
Num(n) == [k |-> "num", n |-> n, d |-> 1, s |-> ""]
Str(s) == [k |-> "str", n |-> 0, d |-> 1, s |-> s]
NaN == [k |-> "nan", n |-> 0, d |-> 1, s |-> ""]
IsNull(v) == v.k = "nan"

\* x / c for a positive integer constant c (NaN stays NaN)
DivV(v, c) == IF v.k = "nan" THEN v ELSE [v EXCEPT !.d = @ * c]
\* a <= b on numeric cells
LeqV(a, b) == a.n * b.d <= b.n * a.d
LtV(a, b) == a.n * b.d < b.n * a.d
\* np.degrees
Degrees(v) == IF v.k = "num" THEN [v EXCEPT !.k = "deg"] ELSE v

(***************************************************************************)
(* Strings: str(int), int(float(str)), str.upper(), str.strip().           *)
(***************************************************************************)
Digits == <<"0", "1", "2", "3", "4", "5", "6", "7", "8", "9">>
\* the mode codes that the conversions are defined on
Codes == 0 .. 99
IntStr(n) == IF n < 10 THEN Digits[n + 1]
             ELSE Digits[(n \div 10) + 1] \o Digits[(n % 10) + 1]

\* int(float(s)) succeeds exactly on a decimal numeral
IsNumeral(s) == \E n \in Codes : IntStr(n) = s
ParseInt(s) == CHOOSE n \in Codes : IntStr(n) = s

LowerNames == {"Stabilize", "Acro", "AltHold", "Auto", "Guided", "Loiter",
               "Circle", "Land", "Drift", "Sport", "Flip", "AutoTune",
               "PosHold", "Brake", "Throw", "Avoid_ADSB", "Guided_NoGPS",
               "Smart_RTL", "FlowHold", "Follow", "ZigZag", "SystemID",
               "Auto_RTL", "Turtle", "Unknown", "Loiter "}
UpperTable ==
    [s \in LowerNames |->
        CASE s = "Stabilize" -> "STABILIZE" [] s = "Acro" -> "ACRO"
          [] s = "AltHold" -> "ALTHOLD" [] s = "Auto" -> "AUTO"
          [] s = "Guided" -> "GUIDED" [] s = "Loiter" -> "LOITER"
          [] s = "Circle" -> "CIRCLE" [] s = "Land" -> "LAND"
          [] s = "Drift" -> "DRIFT" [] s = "Sport" -> "SPORT"
          [] s = "Flip" -> "FLIP" [] s = "AutoTune" -> "AUTOTUNE"
          [] s = "PosHold" -> "POSHOLD" [] s = "Brake" -> "BRAKE"
          [] s = "Throw" -> "THROW" [] s = "Avoid_ADSB" -> "AVOID_ADSB"
          [] s = "Guided_NoGPS" -> "GUIDED_NOGPS"
          [] s = "Smart_RTL" -> "SMART_RTL" [] s = "FlowHold" -> "FLOWHOLD"
          [] s = "Follow" -> "FOLLOW" [] s = "ZigZag" -> "ZIGZAG"
          [] s = "SystemID" -> "SYSTEMID" [] s = "Auto_RTL" -> "AUTO_RTL"
          [] s = "Turtle" -> "TURTLE" [] s = "Unknown" -> "UNKNOWN"
          [] s = "Loiter " -> "LOITER "]
\* str.upper(): "Mode 7" -> "MODE 7"; numerals and upper-case text unchanged
Upper(s) ==
    IF s \in LowerNames THEN UpperTable[s]
    ELSE IF \E n \in Codes : s = "Mode " \o IntStr(n)
         THEN "MODE " \o IntStr(CHOOSE n \in Codes : s = "Mode " \o IntStr(n))
         ELSE s
\* str.strip(): the only enumerated strings with outer blanks end in one blank
Strip(s) == IF s = "LOITER " THEN "LOITER"
            ELSE IF s = "Loiter " THEN "Loiter" ELSE s

\* str(x) of a cell holding an int or a str
StrOf(v) == IF v.k = "str" THEN v.s ELSE IntStr(v.n)

(***************************************************************************)
(* Tables (pandas.DataFrame): a set of column names and a sequence of rows,*)
(* every row a function from the columns to cells.                         *)
(***************************************************************************)
EmptyDF == [cols |-> {}, rows |-> <<>>]
\* DataFrame.empty
IsEmpty(df) == df.cols = {} \/ Len(df.rows) = 0
\* pd.DataFrame(list of dicts): the columns are the union of the keys, a
\* key a dict lacks is NaN in its row
DataFrame(dicts) ==
    LET cols == UNION {DOMAIN dicts[i] : i \in 1 .. Len(dicts)}
    IN  [cols |-> cols,
         rows |-> [i \in 1 .. Len(dicts) |->
                     [c \in cols |-> IF c \in DOMAIN dicts[i]
                                     THEN dicts[i][c] ELSE NaN]]]
\* df[col] = constant
WithColumn(df, col, v) ==
    [cols |-> df.cols \cup {col},
     rows |-> [i \in 1 .. Len(df.rows) |->
                 [c \in df.cols \cup {col} |->
                     IF c = col THEN v ELSE df.rows[i][c]]]]

(***************************************************************************)
(* Tick-log decoder (ArduPilotParser).  A log message has a type and the   *)
(* fields its firmware build wrote; getattr falls back to a default for a  *)
(* field the message lacks.                                                *)
(***************************************************************************)
GetAttr(msg, name, default) ==
    IF name \in DOMAIN msg.f THEN msg.f[name] ELSE default

CUSTOM_MODE_MAP ==
    (0 :> "Stabilize") @@ (1 :> "Acro") @@ (2 :> "AltHold") @@ (3 :> "Auto")
    @@ (4 :> "Guided") @@ (5 :> "Loiter") @@ (6 :> "RTL") @@ (7 :> "Circle")
    @@ (9 :> "Land") @@ (11 :> "Drift") @@ (13 :> "Sport") @@ (14 :> "Flip")
    @@ (15 :> "AutoTune") @@ (16 :> "PosHold") @@ (17 :> "Brake")
    @@ (18 :> "Throw") @@ (19 :> "Avoid_ADSB") @@ (20 :> "Guided_NoGPS")
    @@ (21 :> "Smart_RTL") @@ (22 :> "FlowHold") @@ (23 :> "Follow")
    @@ (24 :> "ZigZag") @@ (25 :> "SystemID") @@ (27 :> "Auto_RTL")
    @@ (28 :> "Turtle") @@ (10 :> "Auto") @@ (12 :> "Loiter")

\* dict.get(code, f"Mode {code}")
MapGet(map, code) ==
    IF code \in DOMAIN map THEN map[code] ELSE "Mode " \o IntStr(code)

target_types == {"ATT", "GPS", "VIBE", "RATE", "MODE"}

\* a MODE branch that upper-cases a textual mode and leaves a numeric code
\* as the number it is
ArduModeCell_Raw(msg) ==
    IF "Mode" \in DOMAIN msg.f
    THEN (IF msg.f["Mode"].k = "str" THEN Str(Upper(msg.f["Mode"].s))
          ELSE msg.f["Mode"])
    ELSE IF "ModeNum" \in DOMAIN msg.f THEN msg.f["ModeNum"]
    ELSE Str("UNKNOWN")

\* the MODE branch of parse: the cell stored in row['mode']
ArduModeCell(msg) ==
    LET mode_name ==
          IF "Mode" \in DOMAIN msg.f THEN StrOf(msg.f["Mode"])
          ELSE IF "ModeNum" \in DOMAIN msg.f
               THEN MapGet(CUSTOM_MODE_MAP, msg.f["ModeNum"].n)
               ELSE "Unknown"
    IN  Str(Upper(mode_name))

\* the dict that one loop iteration of parse appends to data_list
ArduRow(msg) ==
    LET base == ("timestamp" :> DivV(GetAttr(msg, "TimeUS", Num(0)), 1000000))
                @@ ("msg_type" :> Str(msg.type))
    IN  CASE msg.type = "ATT" ->
               base @@ ("roll" :> GetAttr(msg, "Roll", NaN))
                    @@ ("pitch" :> GetAttr(msg, "Pitch", NaN))
                    @@ ("yaw" :> GetAttr(msg, "Yaw", NaN))
          [] msg.type = "GPS" ->
               base @@ ("lat" :> GetAttr(msg, "Lat", NaN))
                    @@ ("lon" :> GetAttr(msg, "Lng", NaN))
                    @@ ("alt" :> GetAttr(msg, "Alt", NaN))
          [] msg.type = "VIBE" ->
               base @@ ("vibe_x" :> GetAttr(msg, "VibeX", NaN))
                    @@ ("vibe_y" :> GetAttr(msg, "VibeY", NaN))
                    @@ ("vibe_z" :> GetAttr(msg, "VibeZ", NaN))
                    @@ ("clip_0" :> GetAttr(msg, "Clip0",
                                      GetAttr(msg, "Clipping0", Num(0))))
                    @@ ("clip_1" :> GetAttr(msg, "Clip1",
                                      GetAttr(msg, "Clipping1", Num(0))))
                    @@ ("clip_2" :> GetAttr(msg, "Clip2",
                                      GetAttr(msg, "Clipping2", Num(0))))
          [] msg.type = "RATE" ->
               base @@ ("rate_roll" :> GetAttr(msg, "R",
                                         GetAttr(msg, "Roll", NaN)))
                    @@ ("rate_roll_des" :> GetAttr(msg, "RDes",
                                             GetAttr(msg, "DesRoll", NaN)))
                    @@ ("rate_pitch" :> GetAttr(msg, "P",
                                          GetAttr(msg, "Pitch", NaN)))
                    @@ ("rate_pitch_des" :> GetAttr(msg, "PDes",
                                              GetAttr(msg, "DesPitch", NaN)))
                    @@ ("rate_yaw" :> GetAttr(msg, "Y",
                                        GetAttr(msg, "Yaw", NaN)))
                    @@ ("rate_yaw_des" :> GetAttr(msg, "YDes",
                                            GetAttr(msg, "DesYaw", NaN)))
          [] msg.type = "MODE" ->
               base @@ ("mode" :> ArduModeCell(msg))
          [] OTHER -> base

\* mlog.recv_match(type=target_types): the messages of the wanted types, in
\* file order
RecvMatch(msgs) == SelectSeq(msgs, LAMBDA m : m.type \in target_types)

\* a decode onto a fixed schema: the columns of every message type are
\* present whether or not the type occurred
ArduParse_FixedSchema(msgs) ==
    LET wanted == RecvMatch(msgs)
        t == DataFrame([i \in 1 .. Len(wanted) |-> ArduRow(wanted[i])])
        cols == t.cols \cup {"roll", "lat", "lon", "alt", "vibe_x", "mode"}
    IN  [cols |-> cols,
         rows |-> [i \in 1 .. Len(t.rows) |->
                     [c \in cols |-> IF c \in t.cols THEN t.rows[i][c]
                                     ELSE NaN]]]

\* ArduPilotParser.parse on an opened log
ArduParse(msgs) ==
    LET wanted == RecvMatch(msgs)
    IN  DataFrame([i \in 1 .. Len(wanted) |-> ArduRow(wanted[i])])

(***************************************************************************)
(* Table operations used by the structured-log decoder and by app.py.      *)
(***************************************************************************)
\* outcome of a step that may raise
Ok(df) == [st |-> "ok", exc |-> "", df |-> df]
Raise(e) == [st |-> "raise", exc |-> e, df |-> EmptyDF]

\* df.rename(columns=m): m maps old names to new names
Rename(df, m) ==
    LET new(c) == IF c \in DOMAIN m THEN m[c] ELSE c
        ncols == {new(c) : c \in df.cols}
    IN  [cols |-> ncols,
         rows |-> [i \in 1 .. Len(df.rows) |->
                     [c \in ncols |->
                         df.rows[i][CHOOSE o \in df.cols : new(o) = c]]]]
\* df[[c for c in S]]
Select(df, S) ==
    [cols |-> S,
     rows |-> [i \in 1 .. Len(df.rows) |-> [c \in S |-> df.rows[i][c]]]]
\* df[c] /= k for every column c in S
ScaleCols(df, S, k) ==
    [cols |-> df.cols,
     rows |-> [i \in 1 .. Len(df.rows) |->
                 [c \in df.cols |-> IF c \in S THEN DivV(df.rows[i][c], k)
                                    ELSE df.rows[i][c]]]]
\* df[c] = np.degrees(df[c]) for every column c in S
DegreesCols(df, S) ==
    [cols |-> df.cols,
     rows |-> [i \in 1 .. Len(df.rows) |->
                 [c \in df.cols |-> IF c \in S THEN Degrees(df.rows[i][c])
                                    ELSE df.rows[i][c]]]]
\* the timestamps of a table are in non-decreasing order
IsSorted(df) ==
    \A i \in 1 .. Len(df.rows) - 1 :
        LeqV(df.rows[i]["timestamp"], df.rows[i + 1]["timestamp"])

\* the row orders df.sort_values('timestamp') may produce: the default sort
\* kind is not stable, so rows with equal timestamps come in any order
SortOrders(df) ==
    LET n == Len(df.rows)
    IN  {p \in [1 .. n -> 1 .. n] :
            /\ \A i, j \in 1 .. n : i # j => p[i] # p[j]
            /\ \A i \in 1 .. n - 1 :
                   LeqV(df.rows[p[i]]["timestamp"],
                        df.rows[p[i + 1]]["timestamp"])}
Permute(df, p) ==
    [cols |-> df.cols, rows |-> [i \in 1 .. Len(df.rows) |-> df.rows[p[i]]]]

\* a merge on the nearest sample in either direction (an earlier sample wins
\* a tie)
AsofIndex_Nearest(right, t) ==
    LET n == Len(right.rows)
        ts(j) == right.rows[j]["timestamp"]
        dist(j) == IF LeqV(ts(j), t) THEN t.n * ts(j).d - ts(j).n * t.d
                   ELSE ts(j).n * t.d - t.n * ts(j).d
    IN  IF n = 0 THEN 0
        ELSE CHOOSE j \in 1 .. n :
               \A h \in 1 .. n : dist(j) < dist(h) \/ (dist(j) = dist(h) /\ j <= h)

\* index of the right row pd.merge_asof pairs with a left row at time t
\* (direction backward, exact matches allowed): the last right row whose
\* timestamp is <= t, 0 when there is none
AsofIndex(right, t) ==
    LET hits == {j \in 1 .. Len(right.rows) :
                    LeqV(right.rows[j]["timestamp"], t)}
    IN  IF hits = {} THEN 0
        ELSE CHOOSE j \in hits : \A h \in hits : h <= j

\* a merge that keeps only the left rows that find a prior right sample
MergeAsof_Inner(left, right) ==
    IF ~IsSorted(right) THEN Raise("ValueError")
    ELSE LET rc == right.cols \ {"timestamp"}
             cols == left.cols \cup rc
             kept == SelectSeq(left.rows,
                               LAMBDA r : AsofIndex(right, r["timestamp"]) # 0)
         IN  Ok([cols |-> cols,
                 rows |-> [i \in 1 .. Len(kept) |->
                    [c \in cols |->
                       IF c \in left.cols THEN kept[i][c]
                       ELSE right.rows[AsofIndex(right,
                                                 kept[i]["timestamp"])][c]]]])

\* pd.merge_asof(left, right, on='timestamp'); the right keys must be sorted
MergeAsof(left, right) ==
    IF ~IsSorted(right) THEN Raise("ValueError")
    ELSE LET rc == right.cols \ {"timestamp"}
             cols == left.cols \cup rc
         IN  Ok([cols |-> cols,
                 rows |-> [i \in 1 .. Len(left.rows) |->
                    LET j == AsofIndex(right, left.rows[i]["timestamp"])
                    IN  [c \in cols |->
                           IF c \in left.cols THEN left.rows[i][c]
                           ELSE IF j = 0 THEN NaN
                           ELSE right.rows[j][c]]]])

(***************************************************************************)
(* Structured-log decoder (PX4Parser).  An opened ULog is a function from  *)
(* the names of the topics it holds to their datasets; a dataset holds one *)
(* array of raw integers per field, or is malformed (bad).                 *)
(***************************************************************************)
topics_config ==
    ("vehicle_attitude" :> <<"timestamp", "q[0]", "q[1]", "q[2]", "q[3]">>)
    @@ ("vehicle_gps_position" :> <<"timestamp", "lat", "lon", "alt">>)
    @@ ("vehicle_local_position" :> <<"timestamp", "x", "y", "z">>)
    @@ ("vehicle_angular_velocity" :>
            <<"timestamp", "xyz[0]", "xyz[1]", "xyz[2]">>)
    @@ ("vehicle_rates_setpoint" :> <<"timestamp", "roll", "pitch", "yaw">>)
    @@ ("vehicle_status" :> <<"timestamp", "nav_state">>)
    @@ ("sensor_combined" :>
            <<"timestamp", "accelerometer_m_s2[0]", "accelerometer_m_s2[1]",
              "accelerometer_m_s2[2]">>)
    @@ ("vehicle_imu_status" :>
            <<"timestamp", "accel_clipping[0]", "accel_clipping[1]",
              "accel_clipping[2]">>)

EmptyMap == [x \in {} |-> ""]

\* the flow topic parse looks for: "" stands for None
FlowTopic(ulog) ==
    IF "vehicle_optical_flow" \in DOMAIN ulog THEN "vehicle_optical_flow"
    ELSE IF "optical_flow" \in DOMAIN ulog THEN "optical_flow"
    ELSE ""

\* a detection that probes the three naming schemes in the reverse order
FlowFieldMap_ReversedPriority(ulog) ==
    LET flow_topic == FlowTopic(ulog)
        fields == IF flow_topic = "" THEN {} ELSE DOMAIN ulog[flow_topic].data
        xy == IF "integrated_x" \in fields
                THEN ("integrated_x" :> "flow_x") @@ ("integrated_y" :> "flow_y")
              ELSE IF "pixel_flow_x_integral" \in fields
                THEN ("pixel_flow_x_integral" :> "flow_x")
                     @@ ("pixel_flow_y_integral" :> "flow_y")
              ELSE IF "pixel_flow[0]" \in fields
                THEN ("pixel_flow[0]" :> "flow_x") @@ ("pixel_flow[1]" :> "flow_y")
              ELSE EmptyMap
    IN  IF "quality" \in fields THEN xy @@ ("quality" :> "flow_quality")
        ELSE xy

\* flow_field_map: the source field names of the flow topic and the
\* canonical names they get
FlowFieldMap(ulog) ==
    LET flow_topic == FlowTopic(ulog)
        fields == IF flow_topic = "" THEN {} ELSE DOMAIN ulog[flow_topic].data
        xy == IF "pixel_flow[0]" \in fields
                THEN ("pixel_flow[0]" :> "flow_x") @@ ("pixel_flow[1]" :> "flow_y")
              ELSE IF "pixel_flow_x_integral" \in fields
                THEN ("pixel_flow_x_integral" :> "flow_x")
                     @@ ("pixel_flow_y_integral" :> "flow_y")
              ELSE IF "integrated_x" \in fields
                THEN ("integrated_x" :> "flow_x") @@ ("integrated_y" :> "flow_y")
              ELSE EmptyMap
    IN  IF "quality" \in fields THEN xy @@ ("quality" :> "flow_quality")
        ELSE xy

\* the keys of topics_config when the extraction loop starts
ConfigTopics(ulog) ==
    DOMAIN topics_config
    \cup (IF DOMAIN FlowFieldMap(ulog) # {} THEN {FlowTopic(ulog)} ELSE {})

\* pd.DataFrame(data.data)
FromDataset(ds) ==
    LET fields == DOMAIN ds.data
        n == IF fields = {} THEN 0
             ELSE Len(ds.data[CHOOSE f \in fields : TRUE])
    IN  [cols |-> fields,
         rows |-> [i \in 1 .. n |-> [f \in fields |-> Num(ds.data[f][i])]]]

\* a compatibility rule that copies the scalar to all three axes
ClippingCompat_AllAxes(df) ==
    IF "accel_clipping[0]" \notin df.cols /\ "accel_clipping" \in df.cols
    THEN [cols |-> df.cols \cup {"accel_clipping[0]", "accel_clipping[1]",
                                 "accel_clipping[2]"},
          rows |-> [i \in 1 .. Len(df.rows) |->
                      [c \in df.cols \cup {"accel_clipping[0]",
                                           "accel_clipping[1]",
                                           "accel_clipping[2]"} |->
                          IF c \in {"accel_clipping[0]", "accel_clipping[1]",
                                    "accel_clipping[2]"}
                            THEN df.rows[i]["accel_clipping"]
                          ELSE df.rows[i][c]]]]
    ELSE df

\* accel_clipping given as one scalar: axis 0 takes it, axes 1 and 2 are 0
ClippingCompat(df) ==
    IF "accel_clipping[0]" \notin df.cols /\ "accel_clipping" \in df.cols
    THEN [cols |-> df.cols \cup {"accel_clipping[0]", "accel_clipping[1]",
                                 "accel_clipping[2]"},
          rows |-> [i \in 1 .. Len(df.rows) |->
                      [c \in df.cols \cup {"accel_clipping[0]",
                                           "accel_clipping[1]",
                                           "accel_clipping[2]"} |->
                          IF c = "accel_clipping[0]"
                            THEN df.rows[i]["accel_clipping"]
                          ELSE IF c \in {"accel_clipping[1]",
                                         "accel_clipping[2]"} THEN Num(0)
                          ELSE df.rows[i][c]]]]
    ELSE df

\* the body of the extraction loop for one topic: the table stored in
\* dfs[topic], or the exception that makes the loop skip the topic
ExtractTopic(ulog, topic) ==
    IF topic \notin DOMAIN ulog THEN Raise("IndexError")
    ELSE IF ulog[topic].bad THEN Raise("ValueError")
    ELSE IF "timestamp" \notin DOMAIN ulog[topic].data THEN Raise("KeyError")
    ELSE
      LET df0 == ScaleCols(FromDataset(ulog[topic]), {"timestamp"}, 1000000)
          df1 == IF topic = "vehicle_status"
                 THEN Rename(df0, "nav_state" :> "mode") ELSE df0
          fmap == FlowFieldMap(ulog)
          df2 == IF topic = FlowTopic(ulog)
                 THEN LET r == Rename(df1, fmap)
                          cols == {"timestamp"} \cup {fmap[k] : k \in DOMAIN fmap}
                      IN  Select(r, cols \cap r.cols)
                 ELSE df1
          df3 == IF topic = "vehicle_imu_status" THEN ClippingCompat(df2)
                 ELSE df2
      IN  Ok(df3)

\* dfs after the extraction loop
ExtractAll(ulog) ==
    [t \in {t \in ConfigTopics(ulog) : ExtractTopic(ulog, t).st = "ok"} |->
        ExtractTopic(ulog, t).df]

(***************************************************************************)
(* Attitude from the quaternion, in degrees.  atan2 and asin are exact on  *)
(* the axis and diagonal directions; any other direction stays symbolic.   *)
(***************************************************************************)
Atan2Deg(y, x) ==
    CASE y = 0 /\ x >= 0 -> Num(0)
      [] y = 0 /\ x < 0 -> Num(180)
      [] y > 0 /\ x = 0 -> Num(90)
      [] y < 0 /\ x = 0 -> Num(0 - 90)
      [] y > 0 /\ x = y -> Num(45)
      [] y > 0 /\ x = 0 - y -> Num(135)
      [] y < 0 /\ x = 0 - y -> Num(0 - 45)
      [] y < 0 /\ x = y -> Num(0 - 135)
      [] OTHER -> [k |-> "atan2", n |-> y, d |-> x, s |-> ""]
\* np.clip(v, -1, 1) on an integer
Clip1(v) == IF v < 0 - 1 THEN 0 - 1 ELSE IF v > 1 THEN 1 ELSE v
\* degrees(arcsin(c)) for c in {-1, 0, 1}
AsinDeg(c) == Num(90 * c)

\* roll, pitch, yaw of one attitude row
EulerRow(r) ==
    LET w == r["q[0]"].n
        x == r["q[1]"].n
        y == r["q[2]"].n
        z == r["q[3]"].n
    IN  ("timestamp" :> r["timestamp"])
        @@ ("roll" :> Atan2Deg(2 * (w * x + y * z), 1 - 2 * (x * x + y * y)))
        @@ ("pitch" :> AsinDeg(Clip1(2 * (w * y - z * x))))
        @@ ("yaw" :> Atan2Deg(2 * (w * z + x * y), 1 - 2 * (y * y + z * z)))

(***************************************************************************)
(* Vibration: rolling standard deviation over window_size samples.         *)
(***************************************************************************)
window_size == 25

RECURSIVE SumRange(_, _, _)
\* sum of xs[i] for i in lo..hi
SumRange(xs, lo, hi) ==
    IF lo > hi THEN 0
    ELSE IF lo = hi THEN xs[lo]
    ELSE SumRange(xs, lo, (lo + hi) \div 2)
         + SumRange(xs, (lo + hi) \div 2 + 1, hi)

\* a rolling estimate that also uses the partial windows of the first
\* samples (min_periods below the window size)
RollingStd_PartialWindows(xs, i) ==
    LET lo == IF i < window_size THEN 1 ELSE i - window_size + 1
        w == i - lo + 1
        s1 == SumRange([j \in 1 .. Len(xs) |-> xs[j].n], lo, i)
        s2 == SumRange([j \in 1 .. Len(xs) |-> xs[j].n * xs[j].n], lo, i)
        num == w * s2 - s1 * s1
    IN  IF num = 0 THEN Num(0)
        ELSE [k |-> "sqrt", n |-> num, d |-> w * (w - 1), s |-> ""]

\* Series.rolling(window_size).std().fillna(0) at sample i: the sample
\* standard deviation of the last window_size samples, 0 when there are
\* fewer than window_size samples up to i
RollingStd(xs, i) ==
    IF i < window_size THEN Num(0)
    ELSE LET lo == i - window_size + 1
             s1 == SumRange([j \in 1 .. Len(xs) |-> xs[j].n], lo, i)
             s2 == SumRange([j \in 1 .. Len(xs) |-> xs[j].n * xs[j].n], lo, i)
             num == window_size * s2 - s1 * s1
         IN  IF num = 0 THEN Num(0)
             ELSE [k |-> "sqrt", n |-> num,
                   d |-> window_size * (window_size - 1), s |-> ""]

\* acc with the three vibe columns added
WithVibe(acc) ==
    LET src == ("vibe_x" :> "accelerometer_m_s2[0]")
               @@ ("vibe_y" :> "accelerometer_m_s2[1]")
               @@ ("vibe_z" :> "accelerometer_m_s2[2]")
        cols == acc.cols \cup DOMAIN src
    IN  [cols |-> cols,
         rows |-> [i \in 1 .. Len(acc.rows) |->
                     [c \in cols |->
                         IF c \in DOMAIN src
                         THEN RollingStd([j \in 1 .. Len(acc.rows) |->
                                            acc.rows[j][src[c]]], i)
                         ELSE acc.rows[i][c]]]]

(***************************************************************************)
(* The merge stage of PX4Parser.parse: every step takes the outcome so far *)
(* (a table, or the exception already raised) and the extracted dfs.       *)
(***************************************************************************)
\* the columns a topic contributes, as the table handed to merge_asof
SecStatus(dfs) == Select(dfs["vehicle_status"], {"timestamp", "mode"})
SecGps(dfs) ==
    LET g0 == dfs["vehicle_gps_position"]
        g1 == ScaleCols(g0, {"lat", "lon"}, 10000000)
        gps == ScaleCols(g1, {"alt"}, 1000)
    IN  Select(gps, {"timestamp", "lat", "lon", "alt"})
SecLocal(dfs) ==
    Select(Rename(dfs["vehicle_local_position"],
                  ("x" :> "loc_x") @@ ("y" :> "loc_y") @@ ("z" :> "loc_z")),
           {"timestamp", "loc_x", "loc_y", "loc_z"})
SecAct(dfs) ==
    Select(Rename(DegreesCols(dfs["vehicle_angular_velocity"],
                              {"xyz[0]", "xyz[1]", "xyz[2]"}),
                  ("xyz[0]" :> "rate_roll") @@ ("xyz[1]" :> "rate_pitch")
                  @@ ("xyz[2]" :> "rate_yaw")),
           {"timestamp", "rate_roll", "rate_pitch", "rate_yaw"})
SecDes(dfs) ==
    Select(DegreesCols(Rename(dfs["vehicle_rates_setpoint"],
                              ("roll" :> "rate_roll_des")
                              @@ ("pitch" :> "rate_pitch_des")
                              @@ ("yaw" :> "rate_yaw_des")),
                       {"rate_roll_des", "rate_pitch_des", "rate_yaw_des"}),
           {"timestamp", "rate_roll_des", "rate_pitch_des", "rate_yaw_des"})
SecFlow(ulog, dfs) == dfs[FlowTopic(ulog)]
SecVibe(dfs) ==
    Select(WithVibe(dfs["sensor_combined"]),
           {"timestamp", "vibe_x", "vibe_y", "vibe_z"})
SecClip(dfs) ==
    Select(Rename(dfs["vehicle_imu_status"],
                  ("accel_clipping[0]" :> "clip_0")
                  @@ ("accel_clipping[1]" :> "clip_1")
                  @@ ("accel_clipping[2]" :> "clip_2")),
           {"timestamp", "clip_0", "clip_1", "clip_2"})

\* df has every column of S (a missing one is a KeyError)
HasCols(df, S) == S \subseteq df.cols

\* merge of vehicle_status (mode)
MergeStatus(dfs, r) ==
    IF r.st # "ok" \/ "vehicle_status" \notin DOMAIN dfs THEN r
    ELSE IF ~HasCols(dfs["vehicle_status"], {"mode"}) THEN Raise("KeyError")
    ELSE MergeAsof(r.df, SecStatus(dfs))

\* merge of vehicle_gps_position, with its unit scaling
MergeGps(dfs, r) ==
    IF r.st # "ok" \/ "vehicle_gps_position" \notin DOMAIN dfs THEN r
    ELSE IF ~HasCols(dfs["vehicle_gps_position"], {"lat", "lon", "alt"})
         THEN Raise("KeyError")
    ELSE MergeAsof(r.df, SecGps(dfs))

\* merge of vehicle_local_position
MergeLocal(dfs, r) ==
    IF r.st # "ok" \/ "vehicle_local_position" \notin DOMAIN dfs THEN r
    ELSE IF ~HasCols(dfs["vehicle_local_position"], {"x", "y", "z"})
         THEN Raise("KeyError")
    ELSE MergeAsof(r.df, SecLocal(dfs))

\* merge of the rate loop: actual rates and setpoints, only when both topics
\* were extracted
MergePid(dfs, r) ==
    IF r.st # "ok" \/ ~("vehicle_angular_velocity" \in DOMAIN dfs
                        /\ "vehicle_rates_setpoint" \in DOMAIN dfs) THEN r
    ELSE IF \/ ~HasCols(dfs["vehicle_angular_velocity"],
                        {"xyz[0]", "xyz[1]", "xyz[2]"})
            \/ ~HasCols(dfs["vehicle_rates_setpoint"],
                        {"roll", "pitch", "yaw"})
         THEN Raise("KeyError")
    ELSE LET m1 == MergeAsof(r.df, SecAct(dfs))
         IN  IF m1.st # "ok" THEN m1 ELSE MergeAsof(m1.df, SecDes(dfs))

\* merge of the optical-flow topic
MergeFlow(ulog, dfs, r) ==
    IF r.st # "ok" \/ FlowTopic(ulog) \notin DOMAIN dfs THEN r
    ELSE MergeAsof(r.df, SecFlow(ulog, dfs))

\* vibration computed from sensor_combined, then merged
MergeVibe(dfs, r) ==
    IF r.st # "ok" \/ "sensor_combined" \notin DOMAIN dfs THEN r
    ELSE IF ~HasCols(dfs["sensor_combined"],
                     {"accelerometer_m_s2[0]", "accelerometer_m_s2[1]",
                      "accelerometer_m_s2[2]"})
         THEN Raise("KeyError")
    ELSE MergeAsof(r.df, SecVibe(dfs))

\* merge of vehicle_imu_status (clipping counters)
MergeClip(dfs, r) ==
    IF r.st # "ok" \/ "vehicle_imu_status" \notin DOMAIN dfs THEN r
    ELSE IF "accel_clipping[0]" \notin dfs["vehicle_imu_status"].cols THEN r
    ELSE IF ~HasCols(dfs["vehicle_imu_status"],
                     {"accel_clipping[1]", "accel_clipping[2]"})
         THEN Raise("KeyError")
    ELSE MergeAsof(r.df, SecClip(dfs))

\* the base timeline: the attitude table sorted (in the order perm) and
\* reduced to timestamp, roll, pitch, yaw
AttitudeBase(dfs, perm) ==
    LET att == Permute(dfs["vehicle_attitude"], perm)
    IN  IF ~({"q[0]", "q[1]", "q[2]", "q[3]"} \subseteq att.cols)
        THEN Raise("KeyError")
        ELSE Ok(DataFrame([i \in 1 .. Len(att.rows) |-> EulerRow(att.rows[i])]))

\* the sort orders the decode of ulog may use for its attitude table
AttOrders(ulog) ==
    IF "vehicle_attitude" \in DOMAIN ExtractAll(ulog)
    THEN SortOrders(ExtractAll(ulog)["vehicle_attitude"]) ELSE {<<>>}

\* the alignment stage of parse: base timeline, then the merges in the
\* order of the code
MergeAll(ulog, dfs, perm) ==
    MergeClip(dfs,
    MergeVibe(dfs,
    MergeFlow(ulog, dfs,
    MergePid(dfs,
    MergeLocal(dfs,
    MergeGps(dfs,
    MergeStatus(dfs, AttitudeBase(dfs, perm))))))))

\* a parse that indexes dfs['vehicle_attitude'] without looking for it first
PX4Parse_NoAttitudeCheck(ulog, perm) ==
    LET dfs == ExtractAll(ulog)
    IN  IF DOMAIN dfs = {} THEN Ok(EmptyDF)
        ELSE IF "vehicle_attitude" \notin DOMAIN dfs THEN Raise("KeyError")
        ELSE MergeAll(ulog, dfs, perm)

\* PX4Parser.parse on an opened ULog: the table returned or the exception
\* raised
PX4Parse(ulog, perm) ==
    LET dfs == ExtractAll(ulog)
    IN  IF DOMAIN dfs = {} \/ "vehicle_attitude" \notin DOMAIN dfs
        THEN Ok(EmptyDF)
        ELSE MergeAll(ulog, dfs, perm)

(***************************************************************************)
(* Parser base class (LogParser) and its two subclasses.  A parser object  *)
(* is its class, whether load() has set self.mlog / self.ulog, and the     *)
(* cached table self._df (df_set is FALSE while self._df is None).         *)
(***************************************************************************)
NewParser(cls) == [cls |-> cls, has_log |-> FALSE, df_set |-> FALSE,
                   df |-> EmptyDF]

\* load(): True iff the library opens the file; on success the handle is kept
Load(file) == file.openable

\* parse() of the parser's class; without a handle it returns an empty table
Parse(p, file, perm) ==
    IF ~p.has_log THEN Ok(EmptyDF)
    ELSE IF p.cls = "PX4" THEN PX4Parse(file.ulog, perm)
    ELSE Ok(ArduParse(file.msgs))

\* a cache that keeps the parsed table only when it has rows
CacheParsed_NonEmptyOnly(p, r) ==
    IF r.st = "ok" /\ ~IsEmpty(r.df)
    THEN [p |-> [p EXCEPT !.df_set = TRUE, !.df = r.df], r |-> r]
    ELSE IF r.st = "ok" THEN [p |-> [p EXCEPT !.df = r.df], r |-> r]
    ELSE [p |-> p, r |-> r]

\* self._df = self.parse(); return self._df -- nothing is cached when parse
\* raises
CacheParsed(p, r) ==
    IF r.st = "ok" THEN [p |-> [p EXCEPT !.df_set = TRUE, !.df = r.df], r |-> r]
    ELSE [p |-> p, r |-> r]

\* get_dataframe that answers a failed load() with parse()'s empty table
GetDataframe_EmptyOnFailure(p, file, perm) ==
    IF p.df_set THEN [p |-> p, r |-> Ok(p.df)]
    ELSE IF ~Load(file) THEN CacheParsed(p, Parse(p, file, perm))
    ELSE CacheParsed([p EXCEPT !.has_log = TRUE],
                     Parse([p EXCEPT !.has_log = TRUE], file, perm))

\* LogParser.get_dataframe: the parser afterwards and the table returned or
\* the exception raised
GetDataframe(p, file, perm) ==
    IF p.df_set THEN [p |-> p, r |-> Ok(p.df)]
    ELSE IF ~Load(file) THEN [p |-> p, r |-> Raise("ValueError")]
    ELSE CacheParsed([p EXCEPT !.has_log = TRUE],
                     Parse([p EXCEPT !.has_log = TRUE], file, perm))

(***************************************************************************)
(* app.py: alignment of the decoded table.                                 *)
(***************************************************************************)
\* a fill that takes the first observation instead of the latest one
FillSource_First(rows, c, i) ==
    LET obs == {j \in 1 .. i : ~IsNull(rows[j][c])}
    IN  IF obs = {} THEN 0 ELSE CHOOSE j \in obs : \A h \in obs : j <= h

\* row index of the value a forward fill puts in column c of row i: the
\* last row at or before i whose cell is not null, 0 when there is none
FillSource(rows, c, i) ==
    LET obs == {j \in 1 .. i : ~IsNull(rows[j][c])}
    IN  IF obs = {} THEN 0 ELSE CHOOSE j \in obs : \A h \in obs : h <= j

\* a fill that also fills backwards the rows before the first observation
Ffill_ThenBfill(df) ==
    [cols |-> df.cols,
     rows |-> [i \in 1 .. Len(df.rows) |->
                 [c \in df.cols |->
                     IF c = "timestamp" THEN df.rows[i][c]
                     ELSE LET j == FillSource(df.rows, c, i)
                              later == {h \in i .. Len(df.rows) :
                                          ~IsNull(df.rows[h][c])}
                          IN  IF j # 0 THEN df.rows[j][c]
                              ELSE IF later = {} THEN NaN
                              ELSE df.rows[CHOOSE h \in later :
                                             \A g \in later : h <= g][c]]]]

\* df.set_index('timestamp').ffill().reset_index()
Ffill(df) ==
    [cols |-> df.cols,
     rows |-> [i \in 1 .. Len(df.rows) |->
                 [c \in df.cols |->
                     IF c = "timestamp" THEN df.rows[i][c]
                     ELSE LET j == FillSource(df.rows, c, i)
                          IN  IF j = 0 THEN NaN ELSE df.rows[j][c]]]]

\* number of leading rows whose mean is the altitude reference
HomeRows == 50

\* a + b, a - b on numeric cells; NaN is absorbing
AddV(a, b) ==
    IF IsNull(a) \/ IsNull(b) THEN NaN
    ELSE IF a.d = b.d THEN [a EXCEPT !.n = a.n + b.n]
    ELSE [a EXCEPT !.n = a.n * b.d + b.n * a.d, !.d = a.d * b.d]
NegV(a) == IF IsNull(a) THEN NaN ELSE [a EXCEPT !.n = 0 - a.n]
SubV(a, b) == AddV(a, NegV(b))

RECURSIVE SumCells(_, _, _)
\* sum of the cells lo..hi of xs, nulls skipped
SumCells(xs, lo, hi) ==
    IF lo > hi THEN Num(0)
    ELSE IF lo = hi THEN (IF IsNull(xs[lo]) THEN Num(0) ELSE xs[lo])
    ELSE AddV(SumCells(xs, lo, (lo + hi) \div 2),
              SumCells(xs, (lo + hi) \div 2 + 1, hi))

\* a reference taken as the mean of the whole column
HeadMean_AllRows(df, c) ==
    LET n == Len(df.rows)
        xs == [i \in 1 .. n |-> df.rows[i][c]]
        cnt == Cardinality({i \in 1 .. n : ~IsNull(xs[i])})
    IN  IF cnt = 0 THEN NaN ELSE DivV(SumCells(xs, 1, n), cnt)

\* df[c].iloc[:HomeRows].mean(): nulls are skipped, NaN when all are null
HeadMean(df, c) ==
    LET n == IF Len(df.rows) < HomeRows THEN Len(df.rows) ELSE HomeRows
        xs == [i \in 1 .. n |-> df.rows[i][c]]
        cnt == Cardinality({i \in 1 .. n : ~IsNull(xs[i])})
    IN  IF cnt = 0 THEN NaN ELSE DivV(SumCells(xs, 1, n), cnt)

\* the relative_alt column added to the aligned table
RelativeAlt(df) ==
    LET cols == df.cols \cup {"relative_alt"}
        val(i) ==
          IF "alt" \in df.cols
            THEN SubV(df.rows[i]["alt"], HeadMean(df, "alt"))
          ELSE IF "loc_z" \in df.cols
            THEN NegV(SubV(df.rows[i]["loc_z"], HeadMean(df, "loc_z")))
          ELSE Num(0)
    IN  [cols |-> cols,
         rows |-> [i \in 1 .. Len(df.rows) |->
                     [c \in cols |-> IF c = "relative_alt" THEN val(i)
                                     ELSE df.rows[i][c]]]]

(***************************************************************************)
(* app.py: flight-mode segments (add_flight_mode_background).              *)
(***************************************************************************)
MAP_ARDU ==
    (0 :> "Stabilize") @@ (1 :> "Acro") @@ (2 :> "AltHold") @@ (3 :> "Auto")
    @@ (4 :> "Guided") @@ (5 :> "Loiter") @@ (6 :> "RTL") @@ (7 :> "Circle")
    @@ (9 :> "Land") @@ (11 :> "Drift") @@ (13 :> "Sport") @@ (14 :> "Flip")
    @@ (15 :> "AutoTune") @@ (16 :> "PosHold") @@ (17 :> "Brake")
    @@ (18 :> "Throw") @@ (19 :> "Avoid_ADSB") @@ (20 :> "Guided_NoGPS")
    @@ (21 :> "Smart_RTL") @@ (22 :> "FlowHold") @@ (23 :> "Follow")
    @@ (24 :> "ZigZag") @@ (25 :> "SystemID") @@ (27 :> "Auto_RTL")
    @@ (28 :> "Turtle")

MAP_PX4 ==
    (0 :> "Manual") @@ (1 :> "AltHold") @@ (2 :> "PosHold") @@ (3 :> "Mission")
    @@ (4 :> "Loiter") @@ (5 :> "RTL") @@ (6 :> "Acro") @@ (7 :> "Offboard")
    @@ (8 :> "Stabilized") @@ (9 :> "Rattitude") @@ (10 :> "Takeoff")
    @@ (11 :> "Land") @@ (12 :> "Descend") @@ (13 :> "Termination")
    @@ (14 :> "Follow") @@ (15 :> "Precland") @@ (16 :> "Orbit")
    @@ (17 :> "Takeoff") @@ (18 :> "Land") @@ (19 :> "Follow")
    @@ (20 :> "Precland") @@ (22 :> "Orbit")

\* a mode decoder that resolves with the tick-log table whatever the tag
ModeMap_AlwaysArdu(df) == MAP_ARDU

\* the lookup table add_flight_mode_background picks for a table
ModeMap(df) ==
    IF "firmware" \in df.cols /\ df.rows[1]["firmware"] = Str("PX4")
    THEN MAP_PX4 ELSE MAP_ARDU

\* the name shown for a raw mode cell: int(float(raw)) looked up in the
\* table, or, when the conversion fails, str(raw).strip()
ResolveMode(map, raw) ==
    IF raw.k = "num" THEN MapGet(map, raw.n \div raw.d)
    ELSE IF IsNumeral(raw.s) THEN MapGet(map, ParseInt(raw.s))
    ELSE Strip(raw.s)

\* df[['timestamp', 'mode']].dropna().reset_index(drop=True)
ModeRows(df) ==
    SelectSeq(Select(df, {"timestamp", "mode"}).rows,
              LAMBDA r : ~IsNull(r["timestamp"]) /\ ~IsNull(r["mode"]))

\* a grouping that never starts a new group
ModeGroup_Single(rows, i) == 1

\* mode_group of row i: (mode != mode.shift()).cumsum()
ModeGroup(rows, i) ==
    Cardinality({j \in 1 .. i : j = 1 \/ rows[j]["mode"] # rows[j - 1]["mode"]})

\* smallest / largest timestamp among the rows with indices in S
MinT(rows, S) ==
    rows[CHOOSE i \in S : \A j \in S :
            LeqV(rows[i]["timestamp"], rows[j]["timestamp"])]["timestamp"]
MaxT(rows, S) ==
    rows[CHOOSE i \in S : \A j \in S :
            LeqV(rows[j]["timestamp"], rows[i]["timestamp"])]["timestamp"]

\* the rectangles add_flight_mode_background draws, in drawing order: x0,
\* x1, the raw mode of the group and the annotation text
ModeSegments(df) ==
    IF "mode" \notin df.cols THEN <<>>
    ELSE LET rows == ModeRows(df)
             n == Len(rows)
             ngroups == IF n = 0 THEN 0 ELSE ModeGroup(rows, n)
             members(g) == {i \in 1 .. n : ModeGroup(rows, i) = g}
             first(g) == CHOOSE i \in members(g) : \A j \in members(g) : i <= j
         IN  [g \in 1 .. ngroups |->
                 [start_t |-> MinT(rows, members(g)),
                  end_t |-> MaxT(rows, members(g)),
                  raw_val |-> rows[first(g)]["mode"],
                  mode_name |-> ResolveMode(ModeMap(df),
                                            rows[first(g)]["mode"])]]

(***************************************************************************)
(* app.py: the diagnostic summary (generate_ai_prompt) and its own copies  *)
(* of the mode lookup tables.                                              *)
(***************************************************************************)
AI_MAP_ARDU ==
    (0 :> "Stabilize") @@ (1 :> "Acro") @@ (2 :> "AltHold") @@ (3 :> "Auto")
    @@ (4 :> "Guided") @@ (5 :> "Loiter") @@ (6 :> "RTL") @@ (7 :> "Circle")
    @@ (9 :> "Land") @@ (16 :> "PosHold") @@ (17 :> "Brake")
    @@ (21 :> "Smart_RTL") @@ (23 :> "Follow")

AI_MAP_PX4 == MAP_PX4

\* target_map: the table the summary picks for a table
TargetMap(df) ==
    IF "firmware" \in df.cols /\ df.rows[1]["firmware"] = Str("PX4")
    THEN AI_MAP_PX4 ELSE AI_MAP_ARDU

\* target_map.get(mode_id, f"M{mode_id}")
AiGet(map, code) ==
    IF code \in DOMAIN map THEN map[code] ELSE "M" \o IntStr(code)

\* mode_str of a sampled row: int(float(raw_mode)) looked up in the table,
\* or, when the conversion fails, str(raw_mode).strip()
SummaryMode(map, raw) ==
    IF raw.k = "num" THEN AiGet(map, raw.n \div raw.d)
    ELSE IF raw.k = "nan" THEN "nan"
    ELSE IF IsNumeral(raw.s) THEN AiGet(map, ParseInt(raw.s))
    ELSE Strip(raw.s)

\* |a| on a numeric cell
AbsV(a) == IF IsNull(a) \/ a.n >= 0 THEN a ELSE NegV(a)

\* Series.nlargest(3).index of the cells xs: the rows holding the three
\* largest values, an earlier row first among equal values, nulls left out
NLargest3(xs) ==
    {i \in 1 .. Len(xs) :
        /\ ~IsNull(xs[i])
        /\ Cardinality({j \in 1 .. Len(xs) :
                           /\ ~IsNull(xs[j])
                           /\ \/ LtV(xs[i], xs[j])
                              \/ (~LtV(xs[j], xs[i]) /\ j < i)}) < 3}

\* the rows of df the summary samples: mode switches, vibration peaks,
\* rate-error peaks, every step-th row, the first and the last row
SampledRows(df) ==
    LET n == Len(df.rows)
        step == IF n \div 15 > 1 THEN n \div 15 ELSE 1
        switches == {i \in 1 .. n :
                        \/ i = 1
                        \/ IsNull(df.rows[i]["mode"])
                        \/ df.rows[i]["mode"] # df.rows[i - 1]["mode"]}
        vibe == IF "vibe_x" \in df.cols
                THEN NLargest3([i \in 1 .. n |-> df.rows[i]["vibe_x"]])
                ELSE {}
        err == IF "rate_roll" \in df.cols /\ "rate_roll_des" \in df.cols
               THEN NLargest3([i \in 1 .. n |->
                                 AbsV(SubV(df.rows[i]["rate_roll_des"],
                                           df.rows[i]["rate_roll"]))])
               ELSE {}
        uniform == {i \in 1 .. n : (i - 1) % step = 0}
    IN  switches \cup vibe \cup err \cup uniform \cup {1, n}

\* the Mode column of the summary table: one entry per sampled row, in row
\* order, with the row index and the mode name shown for it
SummaryModes(df) ==
    LET S == SampledRows(df)
        nth(k) == CHOOSE i \in S : Cardinality({j \in S : j < i}) = k - 1
    IN  [k \in 1 .. Cardinality(S) |->
            [idx |-> nth(k),
             raw_mode |-> df.rows[nth(k)]["mode"],
             mode_str |-> SummaryMode(TargetMap(df), df.rows[nth(k)]["mode"])]]

(***************************************************************************)
(* Input files.  A file has an extension, may or may not be openable by    *)
(* the log library, and holds a message stream (.bin) or topics (.ulg).    *)
(***************************************************************************)
Msg(type, f) == [type |-> type, f |-> f]

\* messages that the enumerated streams are built from: ticks out of order,
\* a record without tick field, columns that start at different rows, mode
\* changes, a message type the decoder does not ask for
SeqPool ==
    { Msg("ATT", ("TimeUS" :> Num(1)) @@ ("Roll" :> Num(5))
                 @@ ("Pitch" :> Num(1)) @@ ("Yaw" :> Num(2))),
      Msg("ATT", ("TimeUS" :> Num(3)) @@ ("Roll" :> Num(7))),
      Msg("GPS", ("TimeUS" :> Num(2)) @@ ("Lat" :> Num(11))
                 @@ ("Lng" :> Num(12)) @@ ("Alt" :> Num(100))),
      Msg("GPS", ("Alt" :> Num(120))),
      Msg("MODE", ("TimeUS" :> Num(1)) @@ ("ModeNum" :> Num(3))),
      Msg("MODE", ("TimeUS" :> Num(2)) @@ ("ModeNum" :> Num(10))),
      Msg("MODE", ("TimeUS" :> Num(3)) @@ ("ModeNum" :> Num(5))),
      Msg("BARO", ("TimeUS" :> Num(2)) @@ ("Alt" :> Num(9))) }

\* mode codes carried by the enumerated single MODE records
ModeCodes == {0, 3, 5, 8, 10, 12, 26, 99}

\* MODE, VIBE and RATE records in the field spellings of different builds
WidePool ==
    { Msg("MODE", ("TimeUS" :> Num(2)) @@ ("ModeNum" :> Num(c))) :
        c \in ModeCodes }
    \cup { Msg("MODE", ("TimeUS" :> Num(2)) @@ ("Mode" :> Num(c))) :
             c \in ModeCodes }
    \cup { Msg("MODE", ("TimeUS" :> Num(2)) @@ ("Mode" :> Num(c))
                       @@ ("ModeNum" :> Num(c))) : c \in ModeCodes }
    \cup { Msg("MODE", ("TimeUS" :> Num(2)) @@ ("Mode" :> Str(n))) :
             n \in {"Auto", "Loiter ", "RTL"} }
    \cup { Msg("MODE", ("TimeUS" :> Num(2))),
           Msg("VIBE", ("TimeUS" :> Num(2)) @@ ("VibeX" :> Num(1))
                       @@ ("VibeY" :> Num(2)) @@ ("VibeZ" :> Num(3))
                       @@ ("Clip0" :> Num(4)) @@ ("Clip1" :> Num(5))
                       @@ ("Clip2" :> Num(6))),
           Msg("VIBE", ("TimeUS" :> Num(2)) @@ ("VibeX" :> Num(1))
                       @@ ("Clipping0" :> Num(7)) @@ ("Clip1" :> Num(5))
                       @@ ("Clipping1" :> Num(8))),
           Msg("RATE", ("TimeUS" :> Num(2)) @@ ("R" :> Num(1))
                       @@ ("RDes" :> Num(2)) @@ ("P" :> Num(3))
                       @@ ("PDes" :> Num(4)) @@ ("Y" :> Num(5))
                       @@ ("YDes" :> Num(6))),
           Msg("RATE", ("TimeUS" :> Num(2)) @@ ("Roll" :> Num(1))
                       @@ ("DesRoll" :> Num(2)) @@ ("P" :> Num(3))
                       @@ ("Pitch" :> Num(9)) @@ ("DesYaw" :> Num(6))) }

\* a flight longer than the altitude-reference window: GPS records whose
\* altitude alternates 99, 101 over the first HomeRows records (mean 100)
\* and is 120 afterwards
LongFlight ==
    [i \in 1 .. HomeRows + 1 |->
        Msg("GPS", ("TimeUS" :> Num(i))
                   @@ ("Alt" :> Num(IF i > HomeRows THEN 120
                                    ELSE IF i % 2 = 1 THEN 99 ELSE 101)))]

\* the enumerated message streams
ArduStreams ==
    UNION {[1 .. n -> SeqPool] : n \in 0 .. MaxMsgs}
    \cup {LongFlight}
    \cup {<<CHOOSE m \in SeqPool : m.type = "ATT" /\ m.f["TimeUS"] = Num(1), w>> :
            w \in WidePool}

DS(data) == [bad |-> FALSE, data |-> data]
NoUlog == [t \in {} |-> DS(EmptyMap)]

\* a dataset of topic fields `payload` (a sequence of field names) sampled
\* at the ticks ts; sample i of the k-th payload field is vals[i] + 100(k-1)
Samples(payload, ts, vals) ==
    DS([f \in {"timestamp"} \cup {payload[k] : k \in 1 .. Len(payload)} |->
          IF f = "timestamp" THEN ts
          ELSE LET k == CHOOSE k \in 1 .. Len(payload) : payload[k] = f
               IN  [i \in 1 .. Len(ts) |-> vals[i] + 100 * (k - 1)]])

\* the attitude datasets enumerated: sorted, unsorted, tied timestamps, a
\* dataset without q[0], one without timestamp, a malformed one
AttOptions ==
    { DS(("timestamp" :> <<2, 4>>) @@ ("q[0]" :> <<1, 1>>)
         @@ ("q[1]" :> <<0, 0>>) @@ ("q[2]" :> <<0, 0>>)
         @@ ("q[3]" :> <<0, 0>>)),
      DS(("timestamp" :> <<4, 2>>) @@ ("q[0]" :> <<1, 0>>)
         @@ ("q[1]" :> <<0, 1>>) @@ ("q[2]" :> <<0, 0>>)
         @@ ("q[3]" :> <<0, 0>>)),
      DS(("timestamp" :> <<3, 3>>) @@ ("q[0]" :> <<1, 1>>)
         @@ ("q[1]" :> <<0, 0>>) @@ ("q[2]" :> <<0, 1>>)
         @@ ("q[3]" :> <<0, 0>>)),
      DS(("timestamp" :> <<2, 4>>) @@ ("q[1]" :> <<0, 0>>)
         @@ ("q[2]" :> <<0, 0>>) @@ ("q[3]" :> <<0, 0>>)),
      DS(("q[0]" :> <<1, 1>>) @@ ("q[1]" :> <<0, 0>>)
         @@ ("q[2]" :> <<0, 0>>) @@ ("q[3]" :> <<0, 0>>)),
      [bad |-> TRUE, data |-> ("timestamp" :> <<2, 4>>)] }

SecondaryTopics ==
    (DOMAIN topics_config \ {"vehicle_attitude"})
    \cup {"vehicle_optical_flow", "optical_flow"}

\* the payload fields of the enumerated datasets of a topic, by variant
PayloadOf(topic, variant) ==
    CASE topic \in {"vehicle_optical_flow", "optical_flow"} ->
           ( CASE variant = "early" -> <<"pixel_flow[0]", "pixel_flow[1]",
                                         "quality", "integrated_x">>
               [] variant = "late" -> <<"pixel_flow_x_integral",
                                        "pixel_flow_y_integral">>
               [] variant = "short" -> <<"quality">>
               [] OTHER -> <<"integrated_x", "integrated_y", "quality">> )
      [] topic = "vehicle_imu_status" /\ variant = "late" ->
           <<"accel_clipping">>
      [] variant = "short" ->
           SubSeq(topics_config[topic], 2, Len(topics_config[topic]) - 1)
      [] OTHER -> Tail(topics_config[topic])

\* the dataset variants enumerated for every secondary topic: two samples
\* around the attitude ticks, one late sample (another field spelling for
\* flow and clipping), a dataset lacking a configured field, a malformed
\* one, and one whose ticks decrease
Variants == {"early", "late", "short", "bad", "unsorted"}
\* the flow topics have one more: the third naming scheme, ticks ascending
VariantsOf(topic) ==
    IF topic \in {"vehicle_optical_flow", "optical_flow"}
    THEN Variants \cup {"integrated"} ELSE Variants
TopicOption(topic, variant) ==
    CASE variant \in {"early", "integrated"} ->
           Samples(PayloadOf(topic, variant), <<1, 3>>, <<17, 10>>)
      [] variant = "late" ->
           Samples(PayloadOf(topic, variant), <<3>>, <<4>>)
      [] variant = "short" ->
           Samples(PayloadOf(topic, variant), <<1, 3>>, <<17, 10>>)
      [] variant = "bad" -> [bad |-> TRUE, data |-> ("timestamp" :> <<1>>)]
      [] OTHER ->
           Samples(PayloadOf(topic, variant), <<3, 1>>, <<17, 10>>)

\* the enumerated ULog contents: any attitude option (or none) with the
\* secondary topics of S in the variants v
MkUlog(A, S, v) == A @@ [t \in S |-> TopicOption(t, v[t])]
AttChoices == {NoUlog} \cup {("vehicle_attitude" :> a) : a \in AttOptions}
TopicSets == {S \in SUBSET SecondaryTopics : Cardinality(S) <= MaxTopics}

\* accelerometer streams long enough to fill the rolling window: n samples,
\* one tick apart up to the window size and two ticks apart after it; the
\* x axis has one spike at the first sample, the y axis is constant, the z
\* axis is a ramp
AccTick(i) == IF i < window_size THEN i ELSE 2 * i
LongAcc(n) ==
    DS(("timestamp" :> [i \in 1 .. n |-> AccTick(i)])
       @@ ("accelerometer_m_s2[0]" :> [i \in 1 .. n |-> IF i = 1 THEN 5 ELSE 0])
       @@ ("accelerometer_m_s2[1]" :> [i \in 1 .. n |-> 7])
       @@ ("accelerometer_m_s2[2]" :> [i \in 1 .. n |-> i]))
\* attitude samples before the stream, at the last sample without a full
\* window, at the first sample with one, and after the next sample
LongAtt ==
    DS(("timestamp" :> <<0, AccTick(window_size - 1), AccTick(window_size),
                         AccTick(window_size + 1) + 1>>)
       @@ ("q[0]" :> <<1, 1, 1, 1>>) @@ ("q[1]" :> <<0, 0, 0, 0>>)
       @@ ("q[2]" :> <<0, 0, 0, 0>>) @@ ("q[3]" :> <<0, 0, 0, 0>>))
VibeUlogs ==
    {("vehicle_attitude" :> LongAtt) @@ ("sensor_combined" :> LongAcc(n)) :
        n \in window_size - 1 .. window_size + 1}

(***************************************************************************)
(* The program: app.py decodes the selected file (load_data), aligns the   *)
(* table and draws the figures with their flight-mode background.          *)
(***************************************************************************)
VARIABLES
    file,       \* the log file selected (target_path and its content)
    parser,     \* the parser object load_data creates
    pc,         \* position of the script
    exc,        \* type of the exception that ended the run, "" if none
    df_raw,     \* result of load_data
    df_clean,   \* the aligned table
    segments,   \* rectangles drawn by add_flight_mode_background
    summary,    \* Mode column of the summary generate_ai_prompt returned
    calls,      \* concurrent decode calls: file, position, outcome of each
    objs,       \* the parser objects of the concurrent calls (attributes)
    logs        \* self.mlog / self.ulog of these objects: the file opened

vars == <<file, parser, pc, exc, df_raw, df_clean, segments, summary,
          calls, objs, logs>>

\* the state of the script, the state of the concurrent decode calls
script == <<file, parser, pc, exc, df_raw, df_clean, segments, summary>>
decodes == <<calls, objs, logs>>

Init ==
    /\ \/ \E m \in ArduStreams :
            file = [ext |-> ".bin", openable |-> TRUE, msgs |-> m,
                    ulog |-> NoUlog]
       \/ \E A \in AttChoices : \E S \in TopicSets :
          \E v \in {w \in [S -> Variants \cup {"integrated"}] :
                       \A t \in S : w[t] \in VariantsOf(t)} :
            file = [ext |-> ".ulg", openable |-> TRUE, msgs |-> <<>>,
                    ulog |-> MkUlog(A, S, v)]
       \/ \E u \in VibeUlogs :
            file = [ext |-> ".ulg", openable |-> TRUE, msgs |-> <<>>,
                    ulog |-> u]
       \/ \E e \in {".bin", ".ulg"} :
            file = [ext |-> e, openable |-> FALSE, msgs |-> <<>>,
                    ulog |-> NoUlog]
    /\ parser = NewParser("")
    /\ pc = "start"
    /\ exc = ""
    /\ df_raw = EmptyDF
    /\ df_clean = EmptyDF
    /\ segments = <<>>
    /\ summary = <<>>
    /\ calls = <<>> /\ objs = <<>> /\ logs = <<>>

\* the firmware tag load_data puts on the table of a file
FirmwareTag(f) == IF f.ext = ".ulg" THEN "PX4" ELSE "Ardu"

\* load_data(path): parser by extension, get_dataframe(), firmware column;
\* an exception ends the run in the script's except clause
LoadData ==
    /\ pc = "start"
    /\ \E perm \in AttOrders(file.ulog) :
       \E g \in {GetDataframe(NewParser(FirmwareTag(file)), file, perm)} :
         IF g.r.st = "ok"
         THEN /\ df_raw' = WithColumn(g.r.df, "firmware",
                                      Str(FirmwareTag(file)))
              /\ parser' = [g.p EXCEPT !.df = df_raw']
              /\ pc' = "loaded"
              /\ exc' = ""
         ELSE /\ parser' = g.p
              /\ df_raw' = df_raw
              /\ pc' = "error"
              /\ exc' = g.r.exc
    /\ UNCHANGED <<file, df_clean, segments, summary>>
    /\ UNCHANGED decodes

\* the script after load_data: an empty table is reported, any other table
\* is forward filled and gets its relative_alt column
Clean ==
    /\ pc = "loaded"
    /\ IF IsEmpty(df_raw)
       THEN pc' = "empty" /\ df_clean' = df_clean
       ELSE pc' = "aligned" /\ df_clean' = RelativeAlt(Ffill(df_raw))
    /\ UNCHANGED <<file, parser, exc, df_raw, segments, summary>>
    /\ UNCHANGED decodes

\* a figure with mode background is drawn when the table has attitude,
\* vibration or rate columns
HasFigure(df) == "roll" \in df.cols \/ "vibe_x" \in df.cols
                 \/ "rate_roll" \in df.cols

\* the drawing of the figures: add_flight_mode_background(fig, df_clean)
Draw ==
    /\ pc = "aligned"
    /\ IF HasFigure(df_clean)
       THEN pc' = "drawn" /\ segments' = ModeSegments(df_clean)
       ELSE pc' = "shown" /\ segments' = segments
    /\ UNCHANGED <<file, parser, exc, df_raw, df_clean, summary>>
    /\ UNCHANGED decodes

\* the summary shown after the figures: generate_ai_prompt(df_clean); a
\* table without mode column makes it raise KeyError, which ends the run in
\* the script's except clause
Summarize ==
    /\ pc \in {"drawn", "shown"}
    /\ IF "mode" \in df_clean.cols
       THEN pc' = "summarized" /\ exc' = exc
            /\ summary' = SummaryModes(df_clean)
       ELSE pc' = "error" /\ exc' = "KeyError" /\ summary' = summary
    /\ UNCHANGED <<file, parser, df_raw, df_clean, segments>>
    /\ UNCHANGED decodes

Next == LoadData \/ Clean \/ Draw \/ Summarize

Spec == Init /\ [][Next]_vars

(***************************************************************************)
(* Two decode calls on separate parser objects, e.g. from two threads.     *)
(* get_dataframe is split at the points where another thread may run:      *)
(* the test of self._df, load(), parse() with the store into self._df,     *)
(* and the return.                                                         *)
(***************************************************************************)
\* the files the concurrent calls decode
DecodePool ==
    {[ext |-> ".bin", openable |-> TRUE, msgs |-> m, ulog |-> NoUlog] :
        m \in UNION {[1 .. n -> SeqPool] : n \in 0 .. 1}
               \cup {<<w>> : w \in {x \in WidePool : "ModeNum" \in DOMAIN x.f}}}
    \cup {[ext |-> ".ulg", openable |-> TRUE, msgs |-> <<>>,
           ulog |-> MkUlog(A, {}, EmptyMap)] : A \in AttChoices}
    \cup {[ext |-> ".ulg", openable |-> TRUE, msgs |-> <<>>,
           ulog |-> MkUlog(A, {"vehicle_status"}, "vehicle_status" :> "early")] :
            A \in AttChoices}
    \cup {[ext |-> e, openable |-> FALSE, msgs |-> <<>>, ulog |-> NoUlog] :
            e \in {".bin", ".ulg"}}

\* attributes kept at class level: all parser objects share them
Self_Shared(k) == 1

\* the object whose attributes the methods of call k read and write: every
\* call has its own parser object
Self(k) == k

\* an object that has opened nothing yet has no mlog / ulog attribute
NoLog == [ext |-> "", openable |-> FALSE, msgs |-> <<>>, ulog |-> NoUlog]

InitDecodes ==
    /\ file = [ext |-> ".bin", openable |-> FALSE, msgs |-> <<>>,
               ulog |-> NoUlog]
    /\ parser = NewParser("")
    /\ pc = "idle"
    /\ exc = ""
    /\ df_raw = EmptyDF
    /\ df_clean = EmptyDF
    /\ segments = <<>>
    /\ summary = <<>>
    /\ \E f1, f2 \in DecodePool :
         /\ calls = [k \in 1 .. 2 |->
                       [file |-> IF k = 1 THEN f1 ELSE f2, pc |-> "call",
                        exc |-> "", out |-> EmptyDF]]
         /\ objs = [k \in 1 .. 2 |->
                      NewParser(FirmwareTag(IF k = 1 THEN f1 ELSE f2))]
         /\ logs = [k \in 1 .. 2 |-> NoLog]

\* if self._df is None
TestCache(k) ==
    /\ calls[k].pc = "call"
    /\ calls' = [calls EXCEPT ![k].pc =
                    IF objs[Self(k)].df_set THEN "return" ELSE "load"]
    /\ UNCHANGED <<objs, logs>>
    /\ UNCHANGED script

\* if not self.load(): raise ValueError; load keeps the handle it opened
LoadStep(k) ==
    /\ calls[k].pc = "load"
    /\ IF Load(calls[k].file)
       THEN /\ objs' = [objs EXCEPT ![Self(k)].has_log = TRUE]
            /\ logs' = [logs EXCEPT ![Self(k)] = calls[k].file]
            /\ calls' = [calls EXCEPT ![k].pc = "parse"]
       ELSE /\ calls' = [calls EXCEPT ![k].pc = "raised",
                                      ![k].exc = "ValueError"]
            /\ UNCHANGED <<objs, logs>>
    /\ UNCHANGED script

\* self._df = self.parse()
ParseStep(k) ==
    /\ calls[k].pc = "parse"
    /\ \E perm \in AttOrders(logs[Self(k)].ulog) :
       \E g \in {CacheParsed(objs[Self(k)],
                             Parse(objs[Self(k)], logs[Self(k)], perm))} :
         /\ objs' = [objs EXCEPT ![Self(k)] = g.p]
         /\ calls' = [calls EXCEPT
                        ![k].pc = IF g.r.st = "ok" THEN "return" ELSE "raised",
                        ![k].exc = g.r.exc]
    /\ UNCHANGED logs
    /\ UNCHANGED script

\* return self._df
ReturnStep(k) ==
    /\ calls[k].pc = "return"
    /\ calls' = [calls EXCEPT ![k].pc = "done", ![k].out = objs[Self(k)].df]
    /\ UNCHANGED <<objs, logs>>
    /\ UNCHANGED script

NextDecodes ==
    \E k \in 1 .. 2 :
        TestCache(k) \/ LoadStep(k) \/ ParseStep(k) \/ ReturnStep(k)

SpecDecodes == InitDecodes /\ [][NextDecodes]_vars

(***************************************************************************)
(* Repeated get_dataframe() calls on one parser object.  `parser` is the   *)
(* object, `file` the file at its path (it can appear or disappear between *)
(* calls), logs[1] the handle load() opened, and `calls` the record of the *)
(* calls made so far: what load() and parse() did in each, and its result. *)
(***************************************************************************)
MaxCalls == 3

\* the variables these calls leave alone
aside == <<df_clean, segments, summary, objs>>

\* the record of a call that has just begun
NewCall == [load |-> "none", parse |-> "none", st |-> "running",
            exc |-> "", out |-> EmptyDF]

\* the call in progress (the latest one)
Cur == Len(calls)

InitCache ==
    /\ \E f \in DecodePool : \E b \in BOOLEAN :
         /\ file = [f EXCEPT !.openable = b]
         /\ parser = NewParser(FirmwareTag(f))
    /\ pc = "idle"
    /\ exc = ""
    /\ df_raw = EmptyDF
    /\ df_clean = EmptyDF
    /\ segments = <<>>
    /\ summary = <<>>
    /\ calls = <<>>
    /\ objs = <<>>
    /\ logs = <<NoLog>>

\* a caller invokes get_dataframe()
CallStart ==
    /\ pc = "idle"
    /\ Len(calls) < MaxCalls
    /\ calls' = Append(calls, NewCall)
    /\ pc' = "test"
    /\ UNCHANGED <<file, parser, exc, df_raw, logs>>
    /\ UNCHANGED aside

\* if self._df is None
CacheTest ==
    /\ pc = "test"
    /\ pc' = IF parser.df_set THEN "return" ELSE "load"
    /\ UNCHANGED <<file, parser, exc, df_raw, calls, logs>>
    /\ UNCHANGED aside

\* if not self.load(): raise ValueError
CacheLoad ==
    /\ pc = "load"
    /\ IF Load(file)
       THEN /\ parser' = [parser EXCEPT !.has_log = TRUE]
            /\ logs' = <<file>>
            /\ calls' = [calls EXCEPT ![Cur].load = "ok"]
            /\ pc' = "parse"
            /\ UNCHANGED exc
       ELSE /\ calls' = [calls EXCEPT ![Cur].load = "failed",
                                      ![Cur].st = "raised",
                                      ![Cur].exc = "ValueError"]
            /\ exc' = "ValueError"
            /\ pc' = "idle"
            /\ UNCHANGED <<parser, logs>>
    /\ UNCHANGED <<file, df_raw>>
    /\ UNCHANGED aside

\* self._df = self.parse()
CacheParse ==
    /\ pc = "parse"
    /\ \E perm \in AttOrders(logs[1].ulog) :
       \E g \in {CacheParsed(parser, Parse(parser, logs[1], perm))} :
         /\ parser' = g.p
         /\ IF g.r.st = "ok"
            THEN /\ calls' = [calls EXCEPT ![Cur].parse = "ok"]
                 /\ pc' = "return"
                 /\ UNCHANGED exc
            ELSE /\ calls' = [calls EXCEPT ![Cur].parse = "raised",
                                           ![Cur].st = "raised",
                                           ![Cur].exc = g.r.exc]
                 /\ exc' = g.r.exc
                 /\ pc' = "idle"
    /\ UNCHANGED <<file, df_raw, logs>>
    /\ UNCHANGED aside

\* return self._df
CacheReturn ==
    /\ pc = "return"
    /\ calls' = [calls EXCEPT ![Cur].st = "returned", ![Cur].out = parser.df]
    /\ df_raw' = parser.df
    /\ exc' = ""
    /\ pc' = "idle"
    /\ UNCHANGED <<file, parser, logs>>
    /\ UNCHANGED aside

\* between two calls the file at the path appears or disappears
FileChange ==
    /\ pc = "idle"
    /\ file' = [file EXCEPT !.openable = ~file.openable]
    /\ UNCHANGED <<parser, pc, exc, df_raw, calls, logs>>
    /\ UNCHANGED aside

NextCache ==
    CallStart \/ CacheTest \/ CacheLoad \/ CacheParse \/ CacheReturn
        \/ FileChange

SpecCache == InitCache /\ [][NextCache]_vars

(***************************************************************************)
(* Properties.                                                             *)
(***************************************************************************)
\* the script has aligned the table
Aligned == pc \in {"aligned", "drawn", "shown"}
\* load_data has returned or raised
Decoded == pc # "start"

\* C1: in every aligned table, of either decoder, adjacent rows have
\* non-decreasing timestamps, whatever the order and the ticks of the source
\* messages (a record without tick field included).
C1_MonotonicTimeline == Aligned => IsSorted(df_clean)

\* C2: when load() returns False, get_dataframe() returns an empty table and
\* no exception leaves the decode.
C2_EmptyResultOnLoadFailure ==
    (Decoded /\ ~Load(file)) =>
        (exc = "" /\ pc \in {"loaded", "empty"} /\ IsEmpty(df_raw))

\* C2 as amended: when load() returns False, get_dataframe() raises
\* ValueError; parse() is not run (no handle was stored), no table is
\* returned and none is cached.
C2_LoadFailureRaises ==
    (Decoded /\ ~Load(file)) =>
        /\ pc = "error" /\ exc = "ValueError"
        /\ ~parser.has_log /\ ~parser.df_set
        /\ df_raw = EmptyDF
C2_Witness == pc = "error" /\ ~file.openable /\ exc = "ValueError"

\* C3: forward fill.  In the aligned table every column that received a
\* value at some row j <= i is non-null at row i and holds the value it
\* received at the last row k <= i where the decoded table has a value of
\* its own; the alignment keeps the number and the order of the rows.
C3_ForwardFill ==
    Aligned =>
        /\ Len(df_clean.rows) = Len(df_raw.rows)
        /\ \A i \in 1 .. Len(df_raw.rows) :
             /\ df_clean.rows[i]["timestamp"] = df_raw.rows[i]["timestamp"]
             /\ \A c \in df_raw.cols : \A k \in 1 .. i :
                  ( /\ ~IsNull(df_raw.rows[k][c])
                    /\ \A j \in (k + 1) .. i : IsNull(df_raw.rows[j][c]) )
                  => ( /\ ~IsNull(df_clean.rows[i][c])
                       /\ df_clean.rows[i][c] = df_raw.rows[k][c] )
\* a row inherits a value, and not the first one its column ever had
C3_Witness ==
    /\ Aligned
    /\ \E c \in df_raw.cols : \E i \in 1 .. Len(df_raw.rows) :
         /\ IsNull(df_raw.rows[i][c])
         /\ ~IsNull(df_clean.rows[i][c])
         /\ \E j \in 1 .. i : /\ ~IsNull(df_raw.rows[j][c])
                              /\ df_raw.rows[j][c] # df_clean.rows[i][c]

\* the first i rows of a table
FirstRows(df, i) == [cols |-> df.cols, rows |-> SubSeq(df.rows, 1, i)]

\* C4: no back-fill.  A decoded column stays null in every aligned row
\* before its first observation, and row i of the aligned table is what the
\* alignment of the first i rows alone gives: it does not depend on any
\* later row.  (relative_alt is derived after the alignment and is not one
\* of the aligned columns.)
C4_NoBackFill ==
    Aligned =>
        \A i \in 1 .. Len(df_raw.rows) : \A c \in df_raw.cols :
            /\ (\A j \in 1 .. i : IsNull(df_raw.rows[j][c]))
                   => IsNull(df_clean.rows[i][c])
            /\ df_clean.rows[i][c] = Ffill(FirstRows(df_raw, i)).rows[i][c]
\* a column is still null in a row that precedes its first observation
C4_Witness ==
    /\ Aligned
    /\ \E c \in df_raw.cols : \E i, j \in 1 .. Len(df_clean.rows) :
         i < j /\ IsNull(df_clean.rows[i][c]) /\ ~IsNull(df_clean.rows[j][c])

\* load_data returned the table of a structured log
DecodedUlg == Decoded /\ exc = "" /\ file.ext = ".ulg"

\* the table handed to merge_asof that provides column c of the output
SecOwner(ulog, c) ==
    LET dfs == ExtractAll(ulog)
    IN  CASE c = "mode" -> SecStatus(dfs)
          [] c \in {"lat", "lon", "alt"} -> SecGps(dfs)
          [] c \in {"loc_x", "loc_y", "loc_z"} -> SecLocal(dfs)
          [] c \in {"rate_roll", "rate_pitch", "rate_yaw"} -> SecAct(dfs)
          [] c \in {"rate_roll_des", "rate_pitch_des", "rate_yaw_des"} ->
               SecDes(dfs)
          [] c \in {"flow_x", "flow_y", "flow_quality"} -> SecFlow(ulog, dfs)
          [] c \in {"vibe_x", "vibe_y", "vibe_z"} -> SecVibe(dfs)
          [] c \in {"clip_0", "clip_1", "clip_2"} -> SecClip(dfs)
AttitudeCols == {"timestamp", "roll", "pitch", "yaw", "firmware"}

\* samples of a secondary table that are not later than t
PriorSamples(sec, t) ==
    {j \in 1 .. Len(sec.rows) : LeqV(sec.rows[j]["timestamp"], t)}

ModeCarrying ==
    IF "mode" \in df_clean.cols
    THEN SelectSeq(df_clean.rows, LAMBDA r : ~IsNull(r["mode"])) ELSE <<>>
AllRows(df) == 1 .. Len(df.rows)

C7_AdjacentSegmentsDiffer ==
    pc = "drawn" =>
        \A k \in 1 .. Len(segments) - 1 :
            segments[k].mode_name # segments[k + 1].mode_name

\* the numeric code a MODE record carries in its Mode field or, without a
\* Mode field, in its ModeNum field
Carries(msg, code) ==
    \/ "Mode" \in DOMAIN msg.f /\ msg.f["Mode"] = Num(code)
    \/ "Mode" \notin DOMAIN msg.f /\ "ModeNum" \in DOMAIN msg.f
       /\ msg.f["ModeNum"] = Num(code)
ModeRecords == {i \in 1 .. Len(file.msgs) : file.msgs[i].type = "MODE"}

\* C8: a tick-log MODE record carrying code 10 or 3 resolves, decoder then
\* mode decoder, to "AUTO", and one carrying 12 or 5 to "LOITER", whichever
\* of Mode and ModeNum carries the code.
C8_ModeCollisionResolution ==
    (pc = "drawn" /\ file.ext = ".bin" /\ Cardinality(ModeRecords) = 1) =>
        LET msg == file.msgs[CHOOSE i \in ModeRecords : TRUE]
        IN  /\ (Carries(msg, 10) \/ Carries(msg, 3)) =>
                  (Len(segments) = 1 /\ segments[1].mode_name = "AUTO")
            /\ (Carries(msg, 12) \/ Carries(msg, 5)) =>
                  (Len(segments) = 1 /\ segments[1].mode_name = "LOITER")

\* the attitude topic is absent from the file or cannot be extracted
AttitudeUnavailable(ulog) ==
    \/ "vehicle_attitude" \notin DOMAIN ulog
    \/ ulog["vehicle_attitude"].bad
    \/ "timestamp" \notin DOMAIN ulog["vehicle_attitude"].data

\* C9: when the structured log opens but its attitude topic is absent or
\* fails to extract, parse returns an empty table and raises nothing,
\* whatever other topics the file holds.
C9_MissingAttitudeEmpty ==
    (Decoded /\ file.ext = ".ulg" /\ Load(file)
       /\ AttitudeUnavailable(file.ulog)) =>
        /\ exc = ""
        /\ df_raw.rows = <<>> /\ df_raw.cols = {"firmware"}
        /\ parser.df_set /\ IsEmpty(parser.df)
\* an attitude topic that fails to extract, next to other topics
C9_Witness ==
    /\ pc = "empty" /\ file.ext = ".ulg"
    /\ "vehicle_attitude" \in DOMAIN file.ulog
    /\ AttitudeUnavailable(file.ulog)
    /\ Cardinality(DOMAIN file.ulog) > 1

\* the attitude topic extracts and has its four quaternion fields
AttitudeGood(ulog) ==
    /\ ~AttitudeUnavailable(ulog)
    /\ {"q[0]", "q[1]", "q[2]", "q[3]"}
           \subseteq DOMAIN ulog["vehicle_attitude"].data
\* the ticks of every secondary topic of the file are in ascending order
TicksAscend(ulog) ==
    \A t \in DOMAIN ulog \ {"vehicle_attitude"} :
        "timestamp" \in DOMAIN ulog[t].data =>
            \A i \in 1 .. Len(ulog[t].data["timestamp"]) - 1 :
                ulog[t].data["timestamp"][i] <= ulog[t].data["timestamp"][i + 1]

\* C10: an optional topic that is absent, malformed or lacks one of its
\* configured fields is dropped from the merge: the decode raises nothing
\* and returns the table built on the attitude samples.
C10_TopicFailuresAbsorbed ==
    (Decoded /\ file.ext = ".ulg" /\ Load(file)
       /\ AttitudeGood(file.ulog) /\ TicksAscend(file.ulog)) =>
        /\ exc = ""
        /\ Len(df_raw.rows) = Len(file.ulog["vehicle_attitude"].data["timestamp"])

\* the column relative_alt is derived from: alt before loc_z, "" for neither
AltSource(df) ==
    IF "alt" \in df.cols THEN "alt"
    ELSE IF "loc_z" \in df.cols THEN "loc_z" ELSE ""
\* the leading rows of df that hold the altitude reference
HomeWindow(df) == {j \in 1 .. Len(df.rows) : j <= 50}
\* the rows of the reference window that carry a value of column c
HomeObs(df, c) == {j \in HomeWindow(df) : ~IsNull(df.rows[j][c])}
\* sum of the numerators of column c over the rows of HomeObs
HomeSum(df, c) ==
    SumRange([j \in 1 .. Len(df.rows) |->
                 IF j \in HomeObs(df, c) THEN df.rows[j][c].n ELSE 0],
             1, Len(df.rows))
\* cell r equals sign * (a - mean of column c over the reference window);
\* the cells of one column share their denominator
IsOffsetFromHome(df, c, r, a, sign) ==
    LET cnt == Cardinality(HomeObs(df, c))
    IN  IF IsNull(a) \/ cnt = 0 THEN IsNull(r)
        ELSE /\ r.k = "num"
             /\ r.n * a.d * cnt = sign * (a.n * cnt - HomeSum(df, c)) * r.d

\* C11: after alignment every row has a relative_alt chosen by a fixed
\* preference: alt minus the mean of alt over the first 50 aligned rows if
\* an alt column exists, else minus (loc_z minus the mean of loc_z over the
\* first 50 aligned rows) if a loc_z column exists, else 0.
C11_RelativeAltitude ==
    Aligned =>
        /\ "relative_alt" \in df_clean.cols
        /\ \A i \in 1 .. Len(df_clean.rows) :
             LET row == df_clean.rows[i]
                 src == AltSource(df_clean)
             IN  CASE src = "alt" ->
                        IsOffsetFromHome(df_clean, "alt", row["relative_alt"],
                                         row["alt"], 1)
                   [] src = "loc_z" ->
                        IsOffsetFromHome(df_clean, "loc_z",
                                         row["relative_alt"], row["loc_z"],
                                         0 - 1)
                   [] OTHER -> row["relative_alt"] = Num(0)
\* a table of more than 50 rows whose first 50 altitudes average 100 and
\* whose later row at altitude 120 has relative_alt 20
C11_Witness ==
    /\ Aligned
    /\ Len(df_clean.rows) > 50
    /\ HomeSum(df_clean, "alt") = 100 * 50
    /\ \E i \in 1 .. Len(df_clean.rows) :
         /\ i > 50
         /\ df_clean.rows[i]["alt"] = Num(120)
         /\ df_clean.rows[i]["relative_alt"].n
              = 20 * df_clean.rows[i]["relative_alt"].d
\* a table without alt whose relative_alt comes from loc_z, sign reversed
C11_WitnessLocal ==
    /\ Aligned
    /\ AltSource(df_clean) = "loc_z"
    /\ \E i \in 1 .. Len(df_clean.rows) :
         /\ ~IsNull(df_clean.rows[i]["relative_alt"])
         /\ df_clean.rows[i]["relative_alt"].n # 0

\* the file is a tick log that holds ATT messages only, at least one
OnlyAtt ==
    /\ file.ext = ".bin" /\ Load(file)
    /\ Len(file.msgs) > 0
    /\ \A i \in 1 .. Len(file.msgs) : file.msgs[i].type = "ATT"
\* the columns of the table the decoder returned: load_data adds firmware
DecoderCols == df_raw.cols \ {"firmware"}
\* row i of the decoded table is message i: its tick in seconds, its Roll
AttRowsInMessageOrder ==
    /\ Len(df_raw.rows) = Len(file.msgs)
    /\ \A i \in 1 .. Len(file.msgs) :
         /\ df_raw.rows[i]["timestamp"].k = "num"
         /\ df_raw.rows[i]["timestamp"].n
              = GetAttr(file.msgs[i], "TimeUS", Num(0)).n
         /\ df_raw.rows[i]["timestamp"].d = 1000000
         /\ df_raw.rows[i]["roll"] = GetAttr(file.msgs[i], "Roll", NaN)

SourceMode(m) ==
    IF "Mode" \in DOMAIN m.f THEN m.f["Mode"]
    ELSE IF "ModeNum" \in DOMAIN m.f THEN m.f["ModeNum"] ELSE NaN
\* upper case of the textual mode values of the enumerated records
TextualUpper == ("Auto" :> "AUTO") @@ ("Loiter " :> "LOITER ") @@ ("RTL" :> "RTL")
\* the decode returned a table with a mode column
ModeDecoded == Decoded /\ exc = "" /\ "mode" \in df_raw.cols
\* a mode cell of the structured-log table is null or the number of a
\* nav_state sample
NavStateKept ==
    \A i \in 1 .. Len(df_raw.rows) :
        LET cell == df_raw.rows[i]["mode"]
            nav == file.ulog["vehicle_status"].data["nav_state"]
        IN  \/ IsNull(cell)
            \/ \E j \in 1 .. Len(nav) : cell = Num(nav[j])
\* the name the tick-log decoder gives code c, in upper case
ArduNameUpper(c) ==
    IF c \in DOMAIN CUSTOM_MODE_MAP THEN UpperTable[CUSTOM_MODE_MAP[c]]
    ELSE "MODE " \o IntStr(c)

\* C13 as stated: in the table of either decoder a mode that was textual
\* in the source is an upper-case string and a mode that was a numeric code
\* in the source is that number.
C13_ModeNormalization ==
    ModeDecoded =>
        IF file.ext = ".ulg" THEN NavStateKept
        ELSE \A i \in 1 .. Len(df_raw.rows) :
               LET m == RecvMatch(file.msgs)[i]
                   src == SourceMode(m)
                   cell == df_raw.rows[i]["mode"]
               IN  m.type = "MODE" =>
                     /\ src.k = "str" => cell = Str(TextualUpper[src.s])
                     /\ src.k = "num" => cell = src

\* C13 amended: a textual mode is an upper-case string in the table of the
\* tick-log decoder and the structured-log decoder leaves nav_state codes as
\* numbers; the tick-log decoder turns a numeric ModeNum into the upper-case
\* name of its lookup table ("MODE {code}" for an unlisted code), a numeric
\* Mode field into its decimal numeral, and a record with neither field
\* into "UNKNOWN": its mode column holds strings only.
C13_ModeNormalizationPerDecoder ==
    ModeDecoded =>
        IF file.ext = ".ulg" THEN NavStateKept
        ELSE \A i \in 1 .. Len(df_raw.rows) :
               LET m == RecvMatch(file.msgs)[i]
                   src == SourceMode(m)
                   cell == df_raw.rows[i]["mode"]
               IN  IF m.type # "MODE" THEN IsNull(cell)
                   ELSE /\ cell.k = "str"
                        /\ src.k = "str" => cell.s = TextualUpper[src.s]
                        /\ (src.k = "num" /\ "Mode" \in DOMAIN m.f) =>
                               cell.s = IntStr(src.n)
                        /\ (src.k = "num" /\ "Mode" \notin DOMAIN m.f) =>
                               cell.s = ArduNameUpper(src.n)
                        /\ IsNull(src) => cell.s = "UNKNOWN"
\* a decoded tick log with a textual mode and a decoded one with a numeric
\* code are both reached; this one has the textual mode "Auto"
C13_Witness ==
    /\ ModeDecoded /\ file.ext = ".bin"
    /\ \E i \in 1 .. Len(df_raw.rows) :
         /\ RecvMatch(file.msgs)[i].type = "MODE"
         /\ SourceMode(RecvMatch(file.msgs)[i]) = Str("Auto")
         /\ df_raw.rows[i]["mode"] = Str("AUTO")

\* a raw mode cell is a numeric code: a number or a decimal numeral
IsCode(raw) == raw.k = "num" \/ (raw.k = "str" /\ IsNumeral(raw.s))
\* the code of such a cell
CodeOf(raw) == IF raw.k = "num" THEN raw.n \div raw.d ELSE ParseInt(raw.s)
\* the synthesized name of an unresolvable code
ModeCodeName(c) == "Mode " \o IntStr(c)

\* C14: a numeric mode code that is not a key of the lookup table of the
\* file's firmware resolves to the name "Mode {code}", in the tick-log
\* decoder (whose table stores names in upper case), in the segment
\* annotation and in the diagnostic summary, and resolving never fails.
C14_UnresolvableModeName ==
    /\ (ModeDecoded /\ file.ext = ".bin") =>
         \A i \in 1 .. Len(df_raw.rows) :
            LET m == RecvMatch(file.msgs)[i]
            IN  (m.type = "MODE" /\ "Mode" \notin DOMAIN m.f
                   /\ "ModeNum" \in DOMAIN m.f
                   /\ m.f["ModeNum"].n \notin DOMAIN CUSTOM_MODE_MAP) =>
                  df_raw.rows[i]["mode"].s
                     \in {ModeCodeName(m.f["ModeNum"].n),
                          "MODE " \o IntStr(m.f["ModeNum"].n)}
    /\ \A g \in 1 .. Len(segments) :
         (IsCode(segments[g].raw_val)
            /\ CodeOf(segments[g].raw_val) \notin DOMAIN ModeMap(df_clean)) =>
           segments[g].mode_name = ModeCodeName(CodeOf(segments[g].raw_val))
    /\ \A k \in 1 .. Len(summary) :
         (IsCode(summary[k].raw_mode)
            /\ CodeOf(summary[k].raw_mode) \notin DOMAIN TargetMap(df_clean)) =>
           summary[k].mode_str = ModeCodeName(CodeOf(summary[k].raw_mode))
    /\ pc = "summarized" => exc = ""

\* the tag the claim gives a file: by its extension
TagOfFile == IF file.ext = ".ulg" THEN "PX4" ELSE "Ardu"
\* every row of df carries the tag t in its firmware column
Tagged(df, t) ==
    /\ "firmware" \in df.cols
    /\ \A i \in 1 .. Len(df.rows) : df.rows[i]["firmware"] = Str(t)
\* the name table t gives a numeric code
NameIn(t, c) == IF c \in DOMAIN t THEN t[c] ELSE ModeCodeName(c)

\* C15: a decoded table carries one firmware tag on all its rows, "PX4" for
\* a .ulg file decoded by the structured-log decoder and "Ardu" for a .bin
\* file decoded by the tick-log decoder, alignment keeps it, and a segment
\* of a numeric code is named from the structured-log table if the tag is
\* "PX4" and from the tick-log table otherwise.
C15_FirmwareTag ==
    /\ (Decoded /\ Load(file) /\ pc # "error") =>
         /\ parser.cls = TagOfFile
         /\ Tagged(df_raw, TagOfFile)
    /\ Aligned => Tagged(df_clean, TagOfFile)
    /\ \A g \in 1 .. Len(segments) :
         IsCode(segments[g].raw_val) =>
           segments[g].mode_name =
             NameIn(IF TagOfFile = "PX4" THEN MAP_PX4 ELSE MAP_ARDU,
                    CodeOf(segments[g].raw_val))
\* a structured log whose nav_state 17 is drawn as "Takeoff", the name of
\* the structured-log table ("Brake" in the tick-log table)
C15_Witness ==
    /\ pc = "drawn" /\ file.ext = ".ulg"
    /\ Tagged(df_clean, "PX4") /\ Len(df_clean.rows) > 0
    /\ \E g \in 1 .. Len(segments) :
         /\ segments[g].raw_val = Num(17)
         /\ segments[g].mode_name = "Takeoff"
\* a tick log whose code 3 is drawn as "Auto" ("Mission" in the other table)
C15_WitnessArdu ==
    /\ pc = "drawn" /\ file.ext = ".bin"
    /\ Tagged(df_clean, "Ardu")
    /\ \E g \in 1 .. Len(segments) :
         /\ IsCode(segments[g].raw_val) /\ CodeOf(segments[g].raw_val) = 3
         /\ segments[g].mode_name = "Auto"

\* the outcomes get_dataframe has on file f when its call runs alone on a
\* fresh parser object
AloneOutcomes(f) ==
    {GetDataframe(NewParser(FirmwareTag(f)), f, perm).r :
        perm \in AttOrders(f.ulog)}

\* C16: two decode calls on separate parser objects, interleaved in any
\* order, share no mutable state: each returns the table, or raises the
\* exception, it returns or raises when run alone, and a step of one call
\* leaves the attributes and the log handle of the other object untouched.
C16_DecodeIndependence ==
    \A k \in DOMAIN calls :
        /\ calls[k].pc = "done" =>
             \E r \in AloneOutcomes(calls[k].file) :
                 r.st = "ok" /\ r.df = calls[k].out
        /\ calls[k].pc = "raised" =>
             \E r \in AloneOutcomes(calls[k].file) :
                 r.st = "raise" /\ r.exc = calls[k].exc
        /\ objs[k].cls = FirmwareTag(calls[k].file)
        /\ logs[k] = IF objs[k].has_log THEN calls[k].file ELSE NoLog
        /\ objs[k].df_set => calls[k].pc \in {"return", "done"}
\* the second call has run from start to end on another file while the
\* first stood between its load() and its parse(), and the first call is
\* going to return a table too
C16_Witness ==
    /\ DOMAIN calls = 1 .. 2
    /\ calls[1].pc = "parse" /\ calls[2].pc = "done"
    /\ calls[1].file # calls[2].file
    /\ ~IsEmpty(calls[2].out)
    /\ \E r \in AloneOutcomes(calls[1].file) : r.st = "ok" /\ ~IsEmpty(r.df)

\* the historical names of the aliased fields, in priority order, and the
\* message type that carries them
Aliases ==
    [clip_0 |-> <<"Clip0", "Clipping0">>, clip_1 |-> <<"Clip1", "Clipping1">>,
     clip_2 |-> <<"Clip2", "Clipping2">>,
     rate_roll |-> <<"R", "Roll">>, rate_roll_des |-> <<"RDes", "DesRoll">>,
     rate_pitch |-> <<"P", "Pitch">>, rate_pitch_des |-> <<"PDes", "DesPitch">>,
     rate_yaw |-> <<"Y", "Yaw">>, rate_yaw_des |-> <<"YDes", "DesYaw">>]
AliasType(c) == IF c \in {"clip_0", "clip_1", "clip_2"} THEN "VIBE" ELSE "RATE"
\* the value of the first alias present on the message, the missing marker
\* when none is
FirstAlias(m, names) ==
    IF names[1] \in DOMAIN m.f THEN m.f[names[1]]
    ELSE IF names[2] \in DOMAIN m.f THEN m.f[names[2]]
    ELSE NaN

\* C17: in the table of the tick-log decoder every aliased field (clip_0/1/2,
\* rate_roll/pitch/yaw and their _des) of a VIBE or RATE row holds the value
\* of the first alias present on the message, and the missing marker if and
\* only if no alias is present; the decode raises nothing.
C17_AliasFallback ==
    (Decoded /\ file.ext = ".bin" /\ Load(file) /\ pc # "error") =>
        /\ Len(df_raw.rows) = Len(RecvMatch(file.msgs))
        /\ \A i \in 1 .. Len(df_raw.rows) :
             LET m == RecvMatch(file.msgs)[i]
             IN  \A c \in DOMAIN Aliases :
                   m.type = AliasType(c) =>
                     df_raw.rows[i][c] = FirstAlias(m, Aliases[c])

\* the canonical columns a secondary topic contributes to the output
CanonicalCols(ulog, t) ==
    CASE t = "vehicle_status" -> {"mode"}
      [] t = "vehicle_gps_position" -> {"lat", "lon", "alt"}
      [] t = "vehicle_local_position" -> {"loc_x", "loc_y", "loc_z"}
      [] t = "vehicle_angular_velocity" ->
           {"rate_roll", "rate_pitch", "rate_yaw"}
      [] t = "vehicle_rates_setpoint" ->
           {"rate_roll_des", "rate_pitch_des", "rate_yaw_des"}
      [] t = "sensor_combined" -> {"vibe_x", "vibe_y", "vibe_z"}
      [] t = "vehicle_imu_status" -> {"clip_0", "clip_1", "clip_2"}
      [] OTHER -> {FlowFieldMap(ulog)[k] :
                     k \in DOMAIN FlowFieldMap(ulog) \cap DOMAIN ulog[t].data}
\* the secondary topics of the file that the extraction loop extracted
ExtractedSecondary(ulog) == DOMAIN ExtractAll(ulog) \ {"vehicle_attitude"}

\* C18: in a table the structured-log decoder returns, every secondary topic
\* that is in the file and was extracted without error has its canonical
\* columns in the output, whichever other topics are present: angular
\* velocity without rate setpoint still yields rate_roll/pitch/yaw, and rate
\* setpoint without angular velocity still yields the rate_*_des columns.
C18_EveryTopicMerged ==
    (DecodedUlg /\ pc # "error" /\ ~IsEmpty(df_raw)) =>
        \A t \in ExtractedSecondary(file.ulog) :
            CanonicalCols(file.ulog, t) \subseteq df_raw.cols

\* the raw ticks of the attitude samples of the file
AttTicks == file.ulog["vehicle_attitude"].data["timestamp"]
\* the structured-log decoder returned a non-empty table
UlgTable == DecodedUlg /\ pc # "error" /\ ~IsEmpty(df_raw)

\* C19: a non-empty table returned by the structured-log decoder has exactly
\* one row per attitude sample, its timestamps are the attitude ticks
\* divided by 1,000,000 in ascending order, whatever secondary topics were
\* merged.
C19_AttitudeBaseTimeline ==
    UlgTable =>
        /\ Len(df_raw.rows) = Len(AttTicks)
        /\ \A i \in 1 .. Len(df_raw.rows) - 1 :
             LeqV(df_raw.rows[i]["timestamp"], df_raw.rows[i + 1]["timestamp"])
        /\ \E p \in [1 .. Len(AttTicks) -> 1 .. Len(AttTicks)] :
             /\ \A i, j \in 1 .. Len(AttTicks) : i # j => p[i] # p[j]
             /\ \A i \in 1 .. Len(AttTicks) :
                  /\ df_raw.rows[i]["timestamp"].k = "num"
                  /\ df_raw.rows[i]["timestamp"].n = AttTicks[p[i]]
                  /\ df_raw.rows[i]["timestamp"].d = 1000000
\* attitude samples logged out of order, two secondary topics merged, one of
\* them with no sample before the first attitude row
C19_Witness ==
    /\ UlgTable
    /\ AttTicks = <<4, 2>>
    /\ Cardinality(ExtractedSecondary(file.ulog)) = 2
    /\ \E c \in df_raw.cols : IsNull(df_raw.rows[1][c])
    /\ \E c \in df_raw.cols \ {"timestamp", "roll", "pitch", "yaw", "firmware"} :
         ~IsNull(df_raw.rows[1][c])

\* the fields of the IMU-status topic of the file
ImuData == file.ulog["vehicle_imu_status"].data
\* the topic exposes clipping as one scalar only / as the three-axis array
ScalarClipping ==
    "accel_clipping" \in DOMAIN ImuData /\ "accel_clipping[0]" \notin DOMAIN ImuData
ArrayClipping ==
    {"accel_clipping[0]", "accel_clipping[1]", "accel_clipping[2]"}
        \subseteq DOMAIN ImuData
\* row r has no clipping value
NoClipping(r) == IsNull(r["clip_0"]) /\ IsNull(r["clip_1"]) /\ IsNull(r["clip_2"])
\* the IMU-status samples at or before the tick of row r
ImuPrior(r) ==
    {j \in 1 .. Len(ImuData["timestamp"]) :
        ImuData["timestamp"][j] <= r["timestamp"].n}

\* C20: when the IMU-status topic has clipping only as one scalar field, a
\* row of the output that has a clipping value has clip_0 equal to the scalar
\* of a prior sample and clip_1 = clip_2 = 0; when the topic has the
\* three-axis array, clip_0/1/2 are the three elements of a prior sample.
C20_ClippingFieldDetection ==
    (UlgTable /\ "vehicle_imu_status" \in ExtractedSecondary(file.ulog)
       /\ (ScalarClipping \/ ArrayClipping)) =>
        /\ {"clip_0", "clip_1", "clip_2"} \subseteq df_raw.cols
        /\ \A i \in 1 .. Len(df_raw.rows) :
             LET r == df_raw.rows[i]
             IN  IF ImuPrior(r) = {} THEN NoClipping(r)
                 ELSE \E j \in ImuPrior(r) :
                        IF ScalarClipping
                        THEN /\ r["clip_0"] = Num(ImuData["accel_clipping"][j])
                             /\ r["clip_1"] = Num(0)
                             /\ r["clip_2"] = Num(0)
                        ELSE /\ r["clip_0"] = Num(ImuData["accel_clipping[0]"][j])
                             /\ r["clip_1"] = Num(ImuData["accel_clipping[1]"][j])
                             /\ r["clip_2"] = Num(ImuData["accel_clipping[2]"][j])
\* a scalar-only topic merged: one row before its sample, one row after it
C20_Witness ==
    /\ UlgTable /\ "vehicle_imu_status" \in ExtractedSecondary(file.ulog)
    /\ ScalarClipping
    /\ \E i, h \in 1 .. Len(df_raw.rows) :
         /\ NoClipping(df_raw.rows[i])
         /\ df_raw.rows[h]["clip_0"] = Num(4)
         /\ df_raw.rows[h]["clip_1"] = Num(0)
\* a three-axis topic merged
C20_WitnessArray ==
    /\ UlgTable /\ "vehicle_imu_status" \in ExtractedSecondary(file.ulog)
    /\ ArrayClipping
    /\ \E h \in 1 .. Len(df_raw.rows) :
         /\ df_raw.rows[h]["clip_0"] = Num(17)
         /\ df_raw.rows[h]["clip_1"] = Num(117)
         /\ df_raw.rows[h]["clip_2"] = Num(217)

\* the flow topic the decoder uses: vehicle_optical_flow before optical_flow
FlowName ==
    IF "vehicle_optical_flow" \in DOMAIN file.ulog THEN "vehicle_optical_flow"
    ELSE "optical_flow"
FlowData == file.ulog[FlowName].data
\* the three naming schemes in their probe order
FlowSchemes ==
    << <<"pixel_flow[0]", "pixel_flow[1]">>,
       <<"pixel_flow_x_integral", "pixel_flow_y_integral">>,
       <<"integrated_x", "integrated_y">> >>
\* every source name a flow field can have
FlowSourceNames ==
    {FlowSchemes[s][a] : s \in 1 .. 3, a \in 1 .. 2} \cup {"quality"}
\* the schemes whose first field the topic has
FlowFound == {s \in 1 .. 3 : FlowSchemes[s][1] \in DOMAIN FlowData}
\* the first of them
FlowFirst == CHOOSE s \in FlowFound : \A u \in FlowFound : s <= u
\* the flow samples at or before the tick of row r
FlowPrior(r) ==
    {j \in 1 .. Len(FlowData["timestamp"]) :
        FlowData["timestamp"][j] <= r["timestamp"].n}
\* column c of every row is field f of a prior flow sample, null without one
FlowColumnFrom(c, f) ==
    \A i \in 1 .. Len(df_raw.rows) :
        LET r == df_raw.rows[i]
        IN  IF FlowPrior(r) = {} THEN IsNull(r[c])
            ELSE \E j \in FlowPrior(r) : r[c] = Num(FlowData[f][j])
\* a non-empty table decoded from a file whose flow topic is readable
FlowDecoded ==
    /\ UlgTable
    /\ DOMAIN file.ulog \cap {"vehicle_optical_flow", "optical_flow"} # {}
    /\ ~file.ulog[FlowName].bad
    /\ "timestamp" \in DOMAIN FlowData

\* C21: in a table decoded from a file with a readable flow topic, flow_x and
\* flow_y hold the fields of the first naming scheme found in the order
\* pixel_flow[0]/[1], pixel_flow_x_integral/_y_integral, integrated_x/_y (and
\* are absent when none is found), flow_quality holds the quality field when
\* the topic has one, and no column carries a source name of a flow field.
C21_FlowFieldDetection ==
    FlowDecoded =>
        /\ df_raw.cols \cap FlowSourceNames = {}
        /\ IF FlowFound = {} THEN df_raw.cols \cap {"flow_x", "flow_y"} = {}
           ELSE /\ "flow_x" \in df_raw.cols
                /\ FlowColumnFrom("flow_x", FlowSchemes[FlowFirst][1])
                /\ IF FlowSchemes[FlowFirst][2] \in DOMAIN FlowData
                   THEN /\ "flow_y" \in df_raw.cols
                        /\ FlowColumnFrom("flow_y", FlowSchemes[FlowFirst][2])
                   ELSE "flow_y" \notin df_raw.cols
        /\ IF "quality" \in DOMAIN FlowData
           THEN /\ "flow_quality" \in df_raw.cols
                /\ FlowColumnFrom("flow_quality", "quality")
           ELSE "flow_quality" \notin df_raw.cols
\* a topic that has the first scheme and a field of the third: the first is
\* taken, and a row after a flow sample carries its values
C21_Witness ==
    /\ FlowDecoded
    /\ FlowFound = {1, 3}
    /\ \E i \in 1 .. Len(df_raw.rows) :
         /\ df_raw.rows[i]["flow_x"] = Num(FlowData["pixel_flow[0]"][1])
         /\ df_raw.rows[i]["flow_y"] = Num(FlowData["pixel_flow[1]"][1])
         /\ df_raw.rows[i]["flow_quality"] = Num(FlowData["quality"][1])
\* a topic that has only the third scheme
C21_WitnessThird ==
    /\ FlowDecoded
    /\ FlowFound = {3}
    /\ \E i \in 1 .. Len(df_raw.rows) :
         df_raw.rows[i]["flow_x"] = Num(FlowData["integrated_x"][2])
\* a topic that has only the second scheme and no quality field
C21_WitnessSecond ==
    /\ FlowDecoded
    /\ FlowFound = {2}
    /\ "flow_x" \in df_raw.cols /\ "flow_quality" \notin df_raw.cols
\* the secondary topic named optical_flow is used when it is the only one
C21_WitnessOldName ==
    /\ FlowDecoded
    /\ FlowName = "optical_flow"
    /\ "flow_x" \in df_raw.cols

AccData == file.ulog["sensor_combined"].data
\* the accelerometer field behind each vibration column
VibeAxis ==
    ("vibe_x" :> "accelerometer_m_s2[0]") @@ ("vibe_y" :> "accelerometer_m_s2[1]")
    @@ ("vibe_z" :> "accelerometer_m_s2[2]")
\* a non-empty table decoded from a file whose accelerometer topic was
\* extracted with its three axes
VibeDecoded ==
    /\ UlgTable
    /\ "sensor_combined" \in ExtractedSecondary(file.ulog)
    /\ \A c \in DOMAIN VibeAxis : VibeAxis[c] \in DOMAIN AccData
\* the accelerometer samples at or before the tick of row r
AccPrior(r) ==
    {j \in 1 .. Len(AccData["timestamp"]) :
        AccData["timestamp"][j] <= r["timestamp"].n}
\* cell v is the sample standard deviation of xs[lo .. hi]
IsStdOf(v, xs, lo, hi) ==
    LET w == hi - lo + 1
        s1 == SumRange(xs, lo, hi)
        s2 == SumRange([j \in 1 .. Len(xs) |-> xs[j] * xs[j]], lo, hi)
    IN  IF w * s2 = s1 * s1 THEN v = Num(0)
        ELSE v.k = "sqrt" /\ v.n * (w * (w - 1)) = v.d * (w * s2 - s1 * s1)
\* cell v is the vibration estimate at sample j of the stream xs
IsVibeAt(v, xs, j) ==
    IF j < window_size THEN v = Num(0)
    ELSE IsStdOf(v, xs, j - window_size + 1, j)
\* every sample of xs has the same value
ConstantStream(xs) == \A i, j \in 1 .. Len(xs) : xs[i] = xs[j]

\* C22: a row of the output that has a prior accelerometer sample carries,
\* for each axis, the estimate of such a sample j: 0 when j is one of the
\* first 24 samples, otherwise the sample standard deviation of the 25
\* samples j-24 .. j counted by index; on a constant stream it is 0; a row
\* before the first sample has no estimate.
C22_VibrationWindow ==
    VibeDecoded =>
        \A c \in DOMAIN VibeAxis :
            /\ c \in df_raw.cols
            /\ \A i \in 1 .. Len(df_raw.rows) :
                 LET r == df_raw.rows[i]
                     xs == AccData[VibeAxis[c]]
                 IN  IF AccPrior(r) = {} THEN IsNull(r[c])
                     ELSE /\ \E j \in AccPrior(r) :
                               /\ \A h \in AccPrior(r) :
                                    AccData["timestamp"][h]
                                        <= AccData["timestamp"][j]
                               /\ IsVibeAt(r[c], xs, j)
                          /\ ConstantStream(xs) => r[c] = Num(0)
\* a stream of more than 25 samples: the row at sample 24 has 0 although the
\* spike is among its samples, the row at sample 25 has the deviation of
\* samples 1..25 (the spike included), the row at sample 26 has 0 again, and
\* the constant axis has 0 throughout
C22_Witness ==
    /\ VibeDecoded
    /\ Len(AccData["timestamp"]) > window_size
    /\ Len(df_raw.rows) = 4
    /\ IsNull(df_raw.rows[1]["vibe_x"])
    /\ df_raw.rows[2]["vibe_x"] = Num(0)
    /\ df_raw.rows[3]["vibe_x"].k = "sqrt"
    /\ df_raw.rows[3]["vibe_x"].n = df_raw.rows[3]["vibe_x"].d
    /\ df_raw.rows[4]["vibe_x"] = Num(0)
    /\ \A i \in 2 .. 4 : df_raw.rows[i]["vibe_y"] = Num(0)
    /\ df_raw.rows[3]["vibe_z"].k = "sqrt"
\* a stream of exactly 24 samples never fills a window
C22_WitnessShort ==
    /\ VibeDecoded
    /\ Len(AccData["timestamp"]) = window_size - 1
    /\ Len(df_raw.rows) = 4
    /\ \A i \in 2 .. 4 : df_raw.rows[i]["vibe_z"] = Num(0)

\* call j has passed its load() step
PastLoad(j) == j < Len(calls) \/ pc \notin {"test", "load"}
\* the parser is between two calls and its latest call failed in load()
AfterFailedLoad ==
    pc = "idle" /\ Len(calls) > 0 /\ calls[Len(calls)].load = "failed"

\* C23: over the calls made on one parser: after a call that returned a
\* table, no later call invokes load() or parse(), and every later call
\* returns that same table, empty or not; a call whose load() fails raises
\* without invoking parse() and leaves the cached table unset, and the call
\* after it invokes load() again.
C23_DecodeOnceCache ==
    /\ \A i, j \in 1 .. Len(calls) :
         (i < j /\ calls[i].st = "returned") =>
            /\ calls[j].load = "none" /\ calls[j].parse = "none"
            /\ calls[j].st # "raised"
            /\ calls[j].st = "returned" => calls[j].out = calls[i].out
    /\ \A i \in 1 .. Len(calls) :
         calls[i].load = "failed" =>
            /\ calls[i].parse = "none" /\ calls[i].st = "raised"
            /\ (i + 1 <= Len(calls) /\ PastLoad(i + 1)) =>
                  calls[i + 1].load # "none"
    /\ AfterFailedLoad => ~parser.df_set
\* a first call that returned an empty table, then a call that returned it
\* again without load() or parse(), although the file has gone meanwhile
C23_Witness ==
    /\ Len(calls) >= 2
    /\ calls[1].st = "returned" /\ calls[1].parse = "ok"
    /\ IsEmpty(calls[1].out)
    /\ calls[2].st = "returned" /\ calls[2].load = "none"
    /\ ~file.openable
\* a failed load(), then a call that loads and parses a table with rows, then
\* a call answered from the cache
C23_WitnessRetry ==
    /\ Len(calls) = 3
    /\ calls[1].load = "failed"
    /\ calls[2].load = "ok" /\ calls[2].st = "returned"
    /\ ~IsEmpty(calls[2].out)
    /\ calls[3].st = "returned" /\ calls[3].load = "none"
\* two failed load() calls in a row
C23_WitnessFailTwice ==
    /\ Len(calls) >= 2
    /\ calls[1].load = "failed" /\ calls[2].load = "failed"

====
